---- MODULE Spec2Model ----
(***************************************************************************)
(* Model of the IPSet entity of package ipsets (npm/pkg/dataplane/ipsets): *)
(* the set taxonomy, the IPSet record with its reference sets and          *)
(* reference counters, the operations that mutate them and the predicates  *)
(* that decide kernel presence and deletability.                           *)
(*                                                                         *)
(* Two specifications are given.                                           *)
(*   Spec        one IPSet object, built by NewIPSet from a metadata drawn *)
(*               at Init, on which every method is called in any order.    *)
(*   SpecPaired  a cache of IPSet objects in which list membership is      *)
(*               maintained by a caller that pairs every insertion into a  *)
(*               list with incIPSetReferCount and every removal with       *)
(*               decIPSetReferCount.                                       *)
(*   SpecRefs    one IPSet object on which only addReference and           *)
(*               deleteReference are called, with the last operation on    *)
(*               each <<name, type>> recorded.                             *)
(*   SpecTaxonomy  the functions of IPSetMetadata and SetType, and         *)
(*               GetMembersOfTranslatedSets, each applied once to the      *)
(*               arguments drawn at Init.                                  *)
(***************************************************************************)
EXTENDS Integers, Sequences, FiniteSets, TLC

VARIABLES
    set,        \* Spec: the IPSet object under operation
    prev,       \* Spec: the value of set before the last call (history)
    emitted,    \* Spec: number of log/metric events the last call emitted
    lastCall,   \* the last call made: [op, a1, a2]
    sets,       \* SpecPaired: the cache, pointer -> IPSet object
    refHist,    \* SpecRefs: the last reference operation on each <<name, type>> (history)
    tax,        \* SpecTaxonomy: the last call of a taxonomy function, with its results
    conc,       \* SpecConcurrent: the engine lock, the two actors and the shared object
    tb,         \* SpecTelemetry: the TelemetryBuffer and its goroutines
    root,       \* SpecRoot: the position of rootExecute and the calls it has made
    slice       \* SpecRemove: a call of remove, its arguments and its result

vars == <<set, prev, emitted, lastCall, sets, refHist, tax, conc, tb, root, slice>>

---------------------------------------------------------------------------
(* Bounds *)

\* counters are capped at MaxCount by the guards of the increments
MaxCount == 2

\* longest member list given to GetMembersOfTranslatedSets
MaxMembers == 2

\* number of connections made to the telemetry server
MaxConns == 2

\* capacity of the channel tb.data in the model (1000 in the source)
MaxNumReports == 1

\* longest slice passed to remove
MaxSlice == 3

---------------------------------------------------------------------------
(* Taxonomy: SetKind, SetType *)

ListSet == "list"
HashSet == "set"
UnknownKind == "unknown"

UnknownType == 0
Namespace == 1
KeyLabelOfNamespace == 2
KeyValueLabelOfNamespace == 3
KeyLabelOfPod == 4
KeyValueLabelOfPod == 5
NamedPorts == 6
NestedLabelOfPod == 7
CIDRBlocks == 8
EmptyHashSet == 9

Unknown == "unknown"

\* prefixes of package util
CIDRPrefix == "cidr-"
NamespacePrefix == "ns-"
NamedPortIPSetPrefix == "namedport:"
PodLabelPrefix == "podlabel-"
NamespaceLabelPrefix == "nslabel-"
NestedLabelPrefix == "nestedlabel-"
EmptySetPrefix == "emptyhashset-"

\* util.GetHashedName: a fixed prefix followed by a hash of the name; the hash
\* is abstracted by an injective tagging of its argument.
util_GetHashedName(name) == "azure-npm-" \o "#" \o name

\* number of events metrics.SendErrorLogAndMetric emits in GetPrefixName
GetPrefixNameLogs(setMetadata) ==
    IF setMetadata.Type \in {CIDRBlocks, Namespace, NamedPorts, KeyLabelOfPod,
                             KeyValueLabelOfPod, KeyLabelOfNamespace,
                             KeyValueLabelOfNamespace, NestedLabelOfPod, EmptyHashSet}
    THEN 0 ELSE 1

\* variants of GetPrefixName: the Namespace case with the namespace-label
\* prefix, and the KeyValueLabelOfPod case with the nested-label prefix
GetPrefixName_namespaceLabel(setMetadata) ==
    CASE setMetadata.Type = CIDRBlocks -> CIDRPrefix \o setMetadata.Name
      [] setMetadata.Type = Namespace -> NamespaceLabelPrefix \o setMetadata.Name
      [] setMetadata.Type = NamedPorts -> NamedPortIPSetPrefix \o setMetadata.Name
      [] setMetadata.Type = KeyLabelOfPod -> PodLabelPrefix \o setMetadata.Name
      [] setMetadata.Type = KeyValueLabelOfPod -> PodLabelPrefix \o setMetadata.Name
      [] setMetadata.Type = KeyLabelOfNamespace -> NamespaceLabelPrefix \o setMetadata.Name
      [] setMetadata.Type = KeyValueLabelOfNamespace -> NamespaceLabelPrefix \o setMetadata.Name
      [] setMetadata.Type = NestedLabelOfPod -> NestedLabelPrefix \o setMetadata.Name
      [] setMetadata.Type = EmptyHashSet -> EmptySetPrefix \o setMetadata.Name
      [] OTHER -> Unknown

GetPrefixName_nestedLabel(setMetadata) ==
    CASE setMetadata.Type = CIDRBlocks -> CIDRPrefix \o setMetadata.Name
      [] setMetadata.Type = Namespace -> NamespacePrefix \o setMetadata.Name
      [] setMetadata.Type = NamedPorts -> NamedPortIPSetPrefix \o setMetadata.Name
      [] setMetadata.Type = KeyLabelOfPod -> PodLabelPrefix \o setMetadata.Name
      [] setMetadata.Type = KeyValueLabelOfPod -> NestedLabelPrefix \o setMetadata.Name
      [] setMetadata.Type = KeyLabelOfNamespace -> NamespaceLabelPrefix \o setMetadata.Name
      [] setMetadata.Type = KeyValueLabelOfNamespace -> NamespaceLabelPrefix \o setMetadata.Name
      [] setMetadata.Type = NestedLabelOfPod -> NestedLabelPrefix \o setMetadata.Name
      [] setMetadata.Type = EmptyHashSet -> EmptySetPrefix \o setMetadata.Name
      [] OTHER -> Unknown

GetPrefixName(setMetadata) ==
    CASE setMetadata.Type = CIDRBlocks -> CIDRPrefix \o setMetadata.Name
      [] setMetadata.Type = Namespace -> NamespacePrefix \o setMetadata.Name
      [] setMetadata.Type = NamedPorts -> NamedPortIPSetPrefix \o setMetadata.Name
      [] setMetadata.Type = KeyLabelOfPod -> PodLabelPrefix \o setMetadata.Name
      [] setMetadata.Type = KeyValueLabelOfPod -> PodLabelPrefix \o setMetadata.Name
      [] setMetadata.Type = KeyLabelOfNamespace -> NamespaceLabelPrefix \o setMetadata.Name
      [] setMetadata.Type = KeyValueLabelOfNamespace -> NamespaceLabelPrefix \o setMetadata.Name
      [] setMetadata.Type = NestedLabelOfPod -> NestedLabelPrefix \o setMetadata.Name
      [] setMetadata.Type = EmptyHashSet -> EmptySetPrefix \o setMetadata.Name
      [] setMetadata.Type = UnknownType -> Unknown
      [] OTHER -> Unknown

\* variant of GetHashedName that hashes whatever GetPrefixName returns
GetHashedName_noSentinel(setMetadata) == util_GetHashedName(GetPrefixName(setMetadata))

GetHashedName(setMetadata) ==
    LET prefixedName == GetPrefixName(setMetadata)
    IN  IF prefixedName = Unknown THEN Unknown ELSE util_GetHashedName(prefixedName)

\* variant of getSetKind without the EmptyHashSet case
getSetKind_noEmptyHashSet(setType) ==
    CASE setType \in {CIDRBlocks, Namespace, NamedPorts, KeyLabelOfPod, KeyValueLabelOfPod}
            -> HashSet
      [] setType \in {KeyLabelOfNamespace, KeyValueLabelOfNamespace, NestedLabelOfPod}
            -> ListSet
      [] OTHER -> UnknownKind

getSetKind(setType) ==
    CASE setType = CIDRBlocks -> HashSet
      [] setType = Namespace -> HashSet
      [] setType = NamedPorts -> HashSet
      [] setType = KeyLabelOfPod -> HashSet
      [] setType = KeyValueLabelOfPod -> HashSet
      [] setType = EmptyHashSet -> HashSet
      [] setType = KeyLabelOfNamespace -> ListSet
      [] setType = KeyValueLabelOfNamespace -> ListSet
      [] setType = NestedLabelOfPod -> ListSet
      [] setType = UnknownType -> UnknownKind
      [] OTHER -> UnknownKind

NewIPSetMetadata(name, setType) == [Name |-> name, Type |-> setType]

GetSetKind(setMetadata) == getSetKind(setMetadata.Type)

\* variant of GetMembersOfTranslatedSets that fills the slice from its end
GetMembersOfTranslatedSets_reversed(members) ==
    [i \in 1..Len(members) |->
        NewIPSetMetadata(members[Len(members) + 1 - i], KeyValueLabelOfPod)]

GetMembersOfTranslatedSets(members) ==
    [i \in 1..Len(members) |-> NewIPSetMetadata(members[i], KeyValueLabelOfPod)]

---------------------------------------------------------------------------
(* ReferenceType *)

SelectorType == "Selector"
NetPolType == "NetPol"

---------------------------------------------------------------------------
(* Go maps and pointers *)

\* the nil pointer (*IPSet)(nil)
NilPtr == "nil"

\* a nil map: reads behave as on an empty map
NilMap == ("<nil>" :> "<nil>")

EmptyMap == <<>>

\* len(m) of a map
len(m) == IF m = NilMap THEN 0 ELSE Cardinality(DOMAIN m)

\* the keys and the values of a map
keys(m) == IF m = NilMap THEN {} ELSE DOMAIN m
values(m) == {m[k] : k \in keys(m)}

\* m[k] = v
mapPut(m, k, v) == (k :> v) @@ m

\* delete(m, k)
mapDelete(m, k) == IF m = NilMap THEN m ELSE [x \in (DOMAIN m) \ {k} |-> m[x]]

\* a nil map[string]struct{}, for the two reference maps the model keeps as sets
NilRefs == {"<nil>"}

\* which operations of Go panic: m[k] = v panics on a nil map ("assignment to
\* entry in nil map"); v, ok := m[k], len(m), range m and delete(m, k) take a
\* nil map as an empty one; p.f panics on a nil pointer, p == q does not
mapWritePanics(m) == m = NilMap
refsWritePanics(refs) == refs = NilRefs
mapReadPanics(m) == FALSE
mapDeletePanics(m) == FALSE
derefPanics(p) == p = NilPtr

---------------------------------------------------------------------------
(* IPSet *)

\* variants of NewIPSet: one that leaves NetPolReference nil, one that makes
\* both membership maps whatever the kind
NewIPSet_nilNetPol(setMetadata) ==
    LET prefixedName == GetPrefixName(setMetadata)
        kind == getSetKind(setMetadata.Type)
    IN  [ Name              |-> prefixedName,
          unprefixedName    |-> setMetadata.Name,
          HashedName        |-> util_GetHashedName(prefixedName),
          Type              |-> setMetadata.Type,
          Kind              |-> kind,
          IPPodKey          |-> IF kind = HashSet THEN EmptyMap ELSE NilMap,
          MemberIPSets      |-> IF kind = HashSet THEN NilMap ELSE EmptyMap,
          SelectorReference |-> {},
          NetPolReference   |-> NilRefs,
          ipsetReferCount   |-> 0,
          kernelReferCount  |-> 0 ]

NewIPSet_bothMaps(setMetadata) ==
    LET prefixedName == GetPrefixName(setMetadata)
        kind == getSetKind(setMetadata.Type)
    IN  [ Name              |-> prefixedName,
          unprefixedName    |-> setMetadata.Name,
          HashedName        |-> util_GetHashedName(prefixedName),
          Type              |-> setMetadata.Type,
          Kind              |-> kind,
          IPPodKey          |-> EmptyMap,
          MemberIPSets      |-> EmptyMap,
          SelectorReference |-> {},
          NetPolReference   |-> {},
          ipsetReferCount   |-> 0,
          kernelReferCount  |-> 0 ]

NewIPSet(setMetadata) ==
    LET prefixedName == GetPrefixName(setMetadata)
        kind == getSetKind(setMetadata.Type)
    IN  [ Name              |-> prefixedName,
          unprefixedName    |-> setMetadata.Name,
          HashedName        |-> util_GetHashedName(prefixedName),
          Type              |-> setMetadata.Type,
          Kind              |-> kind,
          IPPodKey          |-> IF kind = HashSet THEN EmptyMap ELSE NilMap,
          MemberIPSets      |-> IF kind = HashSet THEN NilMap ELSE EmptyMap,
          SelectorReference |-> {},
          NetPolReference   |-> {},
          ipsetReferCount   |-> 0,
          kernelReferCount  |-> 0 ]

\* variant of incIPSetReferCount that counts in the kernel counter
incIPSetReferCount_kernel(s) == [s EXCEPT !.kernelReferCount = @ + 1]

incIPSetReferCount(s) == [s EXCEPT !.ipsetReferCount = @ + 1]


\* variants of decIPSetReferCount: without the zero guard, resetting the
\* counter, and leaving the counter as it is
decIPSetReferCount_unguarded(s) == [s EXCEPT !.ipsetReferCount = @ - 1]
decIPSetReferCount_reset(s) == [s EXCEPT !.ipsetReferCount = 0]
decIPSetReferCount_noop(s) == s

decIPSetReferCount(s) ==
    IF s.ipsetReferCount = 0 THEN s ELSE [s EXCEPT !.ipsetReferCount = @ - 1]

\* variant of incKernelReferCount that counts in both counters
incKernelReferCount_both(s) ==
    [s EXCEPT !.kernelReferCount = @ + 1, !.ipsetReferCount = @ + 1]

incKernelReferCount(s) == [s EXCEPT !.kernelReferCount = @ + 1]

decKernelReferCount(s) ==
    IF s.kernelReferCount = 0 THEN s ELSE [s EXCEPT !.kernelReferCount = @ - 1]


\* variant of addReference that counts every call on the object
addReference_counting(s, referenceName, referenceType) ==
    CASE referenceType = SelectorType ->
            [s EXCEPT !.SelectorReference = @ \cup {referenceName},
                      !.ipsetReferCount = @ + 1]
      [] referenceType = NetPolType ->
            [s EXCEPT !.NetPolReference = @ \cup {referenceName},
                      !.ipsetReferCount = @ + 1]
      [] OTHER -> s

\* variant of addReference whose default case stores a Selector reference
addReference_defaultSelector(s, referenceName, referenceType) ==
    CASE referenceType = NetPolType ->
            [s EXCEPT !.NetPolReference = @ \cup {referenceName}]
      [] OTHER -> [s EXCEPT !.SelectorReference = @ \cup {referenceName}]

\* variant of addReference that names the object after the reference
addReference_renaming(s, referenceName, referenceType) ==
    CASE referenceType = SelectorType ->
            [s EXCEPT !.SelectorReference = @ \cup {referenceName},
                      !.unprefixedName = referenceName]
      [] referenceType = NetPolType ->
            [s EXCEPT !.NetPolReference = @ \cup {referenceName},
                      !.unprefixedName = referenceName]
      [] OTHER -> s

addReference(s, referenceName, referenceType) ==
    CASE referenceType = SelectorType ->
            [s EXCEPT !.SelectorReference = @ \cup {referenceName}]
      [] referenceType = NetPolType ->
            [s EXCEPT !.NetPolReference = @ \cup {referenceName}]
      [] OTHER -> s


\* variant of deleteReference whose Selector case deletes from NetPolReference
deleteReference_wrongMap(s, referenceName, referenceType) ==
    CASE referenceType = SelectorType ->
            [s EXCEPT !.NetPolReference = @ \ {referenceName}]
      [] referenceType = NetPolType ->
            [s EXCEPT !.NetPolReference = @ \ {referenceName}]
      [] OTHER -> s

deleteReference(s, referenceName, referenceType) ==
    CASE referenceType = SelectorType ->
            [s EXCEPT !.SelectorReference = @ \ {referenceName}]
      [] referenceType = NetPolType ->
            [s EXCEPT !.NetPolReference = @ \ {referenceName}]
      [] OTHER -> s

\* number of log.Logf events addReference / deleteReference emit
referenceLogs(referenceType) ==
    IF referenceType \in {SelectorType, NetPolType} THEN 0 ELSE 1

\* number of events the decrements emit: both return silently on a zero counter
decLogs(s) == 0

\* variant of usedByNetPol that looks at the Selector references alone
usedByNetPol_selectorOnly(s) == Cardinality(s.SelectorReference) > 0

usedByNetPol(s) ==
    Cardinality(s.SelectorReference) > 0 \/ Cardinality(s.NetPolReference) > 0

referencedInList(s) == s.ipsetReferCount > 0

referencedInKernel(s) == s.kernelReferCount > 0

\* variant of shouldBeInKernel that looks at the kernel count alone
shouldBeInKernel_kernelOnly(s) == referencedInKernel(s)

shouldBeInKernel(s) == usedByNetPol(s) \/ referencedInKernel(s)

\* variant of canBeForceDeleted that also wants the contents gone
canBeForceDeleted_contents(s) ==
    /\ ~usedByNetPol(s)
    /\ ~referencedInList(s)
    /\ len(s.IPPodKey) = 0
    /\ len(s.MemberIPSets) = 0

canBeForceDeleted(s) == ~usedByNetPol(s) /\ ~referencedInList(s)

\* the values firstMember can take after the range loop of canBeDeleted: nil
\* when there is no member, else the member the map iteration yields first
firstMembers(s) ==
    IF len(s.MemberIPSets) = 0 THEN {NilPtr} ELSE values(s.MemberIPSets)

\* variants of canBeDeleted: one that accepts any single member as ignorable,
\* one that does not look at the leaf members
canBeDeleted_anyMember(s, ignorableMember, firstMember) ==
    LET listMembersOk == len(s.MemberIPSets) = 0 \/ len(s.MemberIPSets) = 1
    IN  /\ ~usedByNetPol(s)
        /\ ~referencedInList(s)
        /\ len(s.IPPodKey) = 0
        /\ listMembersOk

canBeDeleted_noLeafCheck(s, ignorableMember, firstMember) ==
    LET listMembersOk ==
            len(s.MemberIPSets) = 0
            \/ (len(s.MemberIPSets) = 1 /\ firstMember = ignorableMember)
    IN  /\ ~usedByNetPol(s)
        /\ ~referencedInList(s)
        /\ listMembersOk

canBeDeleted(s, ignorableMember, firstMember) ==
    LET listMembersOk ==
            len(s.MemberIPSets) = 0
            \/ (len(s.MemberIPSets) = 1 /\ firstMember = ignorableMember)
    IN  /\ ~usedByNetPol(s)
        /\ ~referencedInList(s)
        /\ len(s.IPPodKey) = 0
        /\ listMembersOk

\* the results canBeDeleted can return, over the iteration orders of the map
canBeDeletedResults(s, ignorableMember) ==
    {canBeDeleted(s, ignorableMember, firstMember) : firstMember \in firstMembers(s)}

hasMember(s, memberName) == memberName \in keys(s.MemberIPSets)

\* whether a call panics, statement by statement. The counters are plain
\* integers: their increments and guarded decrements cannot panic.
addReferencePanics(s, referenceName, referenceType) ==
    CASE referenceType = SelectorType -> refsWritePanics(s.SelectorReference)
      [] referenceType = NetPolType -> refsWritePanics(s.NetPolReference)
      [] OTHER -> FALSE

deleteReferencePanics(s, referenceName, referenceType) ==
    CASE referenceType = SelectorType -> mapDeletePanics(s.SelectorReference)
      [] referenceType = NetPolType -> mapDeletePanics(s.NetPolReference)
      [] OTHER -> FALSE

\* canBeDeleted ranges over MemberIPSets, takes two lengths and compares two
\* pointers without following them
canBeDeletedPanics(s, ignorableMember) ==
    mapReadPanics(s.MemberIPSets) \/ mapReadPanics(s.IPPodKey)

\* GetSetContents follows each member pointer of a list for its HashedName
GetSetContentsPanics(s) ==
    CASE s.Kind = HashSet -> mapReadPanics(s.IPPodKey)
      [] s.Kind = ListSet ->
            \/ mapReadPanics(s.MemberIPSets)
            \/ \E member \in values(s.MemberIPSets) : derefPanics(member)
      [] OTHER -> FALSE

hasMemberPanics(s, memberName) == mapReadPanics(s.MemberIPSets)

---------------------------------------------------------------------------
(* Inputs *)

\* network policy names passed to addReference / deleteReference
Policies == {"np1", "np2"}

\* reference types passed by callers; "Other" is any value outside the two
\* declared constants
ReferenceTypes == {SelectorType, NetPolType, "Other"}

\* metadata the object of Spec is built from: a hash set, a list set and a
\* set of unknown type
Metadatas ==
    { NewIPSetMetadata("x", Namespace),
      NewIPSetMetadata("k", KeyLabelOfNamespace),
      NewIPSetMetadata("u", UnknownType) }

\* IPSet objects that can be members of the list of Spec; c1 and c1b are two
\* distinct objects built from the same metadata
MemberPtrs == {"c1", "c1b", "c2"}

\* IPSet objects of the cache of SpecPaired: two lists and two hash sets
CachePtrs == {"l1", "l2", "c1", "c2"}

MetaOf(p) ==
    CASE p = "l1" -> NewIPSetMetadata("k1", KeyLabelOfNamespace)
      [] p = "l2" -> NewIPSetMetadata("k1:v1", KeyValueLabelOfNamespace)
      [] p = "c1" -> NewIPSetMetadata("x", Namespace)
      [] p = "c1b" -> NewIPSetMetadata("x", Namespace)
      [] p = "c2" -> NewIPSetMetadata("y", Namespace)

\* member.HashedName of the object p points to
HashedNameOf(p) == NewIPSet(MetaOf(p)).HashedName

\* leaf members and the pod keys owning them
IPs == {"10.0.0.1", "10.0.0.2"}
PodKeys == {"ns/pod-a"}

\* the references taken in SpecPaired, as <<object, policy, type>>: a policy
\* selects a hash set or names it as a rule peer, and names a list as a rule peer
PairedReferences ==
    { <<"c1", "np1", SelectorType>>, <<"c1", "np1", NetPolType>>,
      <<"c2", "np1", SelectorType>>, <<"c2", "np1", NetPolType>>,
      <<"l1", "np1", NetPolType>>, <<"l2", "np1", NetPolType>> }
PairedIPs == {"10.0.0.1"}

Call(op, a1, a2) == [op |-> op, a1 |-> a1, a2 |-> a2]

\* the Go nil error and ErrIPSetInvalidKind
NilError == "<nil>"
ErrIPSetInvalidKind == "invalid IPSet Kind"

\* the orders in which a range loop can yield the elements of S
Orders(S) ==
    {o \in [1..Cardinality(S) -> S] : \A i, j \in 1..Cardinality(S) : o[i] = o[j] => i = j}

\* variant of GetSetContents whose HashSet case collects the pod keys
GetSetContents_podKeys(s) ==
    CASE s.Kind = HashSet ->
            { [contents |-> [i \in 1..len(s.IPPodKey) |-> s.IPPodKey[o[i]]], err |-> NilError] :
                 o \in Orders(keys(s.IPPodKey)) }
      [] s.Kind = ListSet ->
            { [contents |-> [i \in 1..len(s.MemberIPSets) |->
                               HashedNameOf(s.MemberIPSets[o[i]])],
               err |-> NilError] : o \in Orders(keys(s.MemberIPSets)) }
      [] OTHER -> { [contents |-> <<>>, err |-> ErrIPSetInvalidKind] }

\* variant of GetSetContents whose default case is the ListSet case
GetSetContents_defaultList(s) ==
    CASE s.Kind = HashSet ->
            { [contents |-> o, err |-> NilError] : o \in Orders(keys(s.IPPodKey)) }
      [] OTHER ->
            { [contents |-> [i \in 1..len(s.MemberIPSets) |->
                               HashedNameOf(s.MemberIPSets[o[i]])],
               err |-> NilError] : o \in Orders(keys(s.MemberIPSets)) }

\* the results GetSetContents can return, over the iteration orders of the map:
\* the keys of IPPodKey, or the HashedName of each value of MemberIPSets
GetSetContents(s) ==
    CASE s.Kind = HashSet ->
            { [contents |-> o, err |-> NilError] : o \in Orders(keys(s.IPPodKey)) }
      [] s.Kind = ListSet ->
            { [contents |-> [i \in 1..len(s.MemberIPSets) |->
                               HashedNameOf(s.MemberIPSets[o[i]])],
               err |-> NilError] : o \in Orders(keys(s.MemberIPSets)) }
      [] OTHER -> { [contents |-> <<>>, err |-> ErrIPSetInvalidKind] }

\* what a call of hasMember yields: its boolean, with no error result
hasMemberOutcome(s, memberName) ==
    [value |-> hasMember(s, memberName), err |-> NilError]

\* no reference operation has been made yet
NoRefHist == [pair \in Policies \X {SelectorType, NetPolType} |-> "none"]

\* no taxonomy function has been called yet
NoTax ==
    [ op |-> "none",
      m1 |-> NewIPSetMetadata("", UnknownType), m2 |-> NewIPSetMetadata("", UnknownType),
      prefix1 |-> "", prefix2 |-> "", hashed1 |-> "", hashed2 |-> "",
      kind |-> "", logs |-> 0, members |-> <<>>, list |-> <<>>, done |-> FALSE ]

\* the policy-event actor and the dataplane-sync actor
Actors == {"policy", "sync"}

\* the calls the actors make
ConcCalls ==
    { Call("incIPSetReferCount", "", ""), Call("decIPSetReferCount", "", ""),
      Call("incKernelReferCount", "", ""), Call("decKernelReferCount", "", ""),
      Call("addReference", "np1", SelectorType), Call("deleteReference", "np1", SelectorType),
      Call("addReference", "np1", NetPolType), Call("deleteReference", "np1", NetPolType) }

\* the method c names, applied to s
applyCall(s, c) ==
    CASE c.op = "incIPSetReferCount" -> incIPSetReferCount(s)
      [] c.op = "decIPSetReferCount" -> decIPSetReferCount(s)
      [] c.op = "incKernelReferCount" -> incKernelReferCount(s)
      [] c.op = "decKernelReferCount" -> decKernelReferCount(s)
      [] c.op = "addReference" -> addReference(s, c.a1, c.a2)
      [] c.op = "deleteReference" -> deleteReference(s, c.a1, c.a2)
      [] OTHER -> s

\* the field of the object the method c names reads and writes
fieldOf(c) ==
    CASE c.op \in {"incIPSetReferCount", "decIPSetReferCount"} -> "ipsetReferCount"
      [] c.op \in {"incKernelReferCount", "decKernelReferCount"} -> "kernelReferCount"
      [] c.op \in {"addReference", "deleteReference"} /\ c.a2 = SelectorType
            -> "SelectorReference"
      [] OTHER -> "NetPolReference"

\* no call is in progress on the object the two actors share
NoConc ==
    [ lock  |-> "none",
      obj   |-> NewIPSet(MetaOf("c1")),
      lin   |-> NewIPSet(MetaOf("c1")),
      pc    |-> [a \in Actors |-> "idle"],
      op    |-> [a \in Actors |-> Call("none", "", "")],
      local |-> [a \in Actors |-> NewIPSet(MetaOf("c1"))] ]

\* the connections the peers of the telemetry server make
Conns == 1..MaxConns

\* NewTelemetryBuffer: no client, no listener, no connection, empty channels
NewTelemetryBuffer ==
    [ main         |-> "new",     \* position of the goroutine that owns the buffer
      client       |-> "nil",
      listener     |-> "nil",
      connections  |-> <<>>,
      Connected    |-> FALSE,
      data         |-> 0,         \* number of reports queued in tb.data
      cancel       |-> 0,         \* number of values queued in tb.cancel
      mutex        |-> "none",    \* the goroutine holding tb.mutex
      ctxDone      |-> FALSE,     \* the context of PushData is done
      acc          |-> "none",    \* position of the accept goroutine
      conn         |-> 0,         \* the connection Accept returned to it
      worker       |-> [c \in Conns |-> "none"],   \* position of each worker goroutine
      open         |-> {},        \* connections accepted and not closed
      cancelCalled |-> FALSE,     \* Cancel has been called (history)
      pushes       |-> 0 ]        \* number of reports pushed, modulo 2 (history)

\* no telemetry buffer has been created
NoTelemetryBuffer == [NewTelemetryBuffer EXCEPT !.main = "none"]

\* the slices and indices remove is called with: every slice of connections
\* up to MaxSlice long, repeated connections included, and every index from -1
\* to one past the longest slice
Slices == UNION {[1..n -> Conns] : n \in 0..MaxSlice}
Indices == -1..(MaxSlice + 1)

\* remove has not been called
NoSlice ==
    [ s |-> <<>>, i |-> 0, array |-> <<>>, result |-> <<>>,
      panicked |-> FALSE, done |-> FALSE ]

\* the values of CNI_COMMAND and of runtime.GOOS rootExecute runs with
CniCmds == {"VERSION", "ADD", "UPDATE", "GET_ENDPOINT_STATE"}
GOOS == {"linux", "windows"}

\* standard input before anything was read from it
NoStdin == [readOk |-> FALSE, json |-> FALSE, name |-> ""]

\* rootExecute at its first statement
RootStart(cniCmd, goos) ==
    [ pc        |-> "NewPlugin",
      cniCmd    |-> cniCmd,
      goos      |-> goos,
      trace     |-> <<>>,       \* the calls made so far (history)
      err       |-> NilError,   \* the variable err of rootExecute
      ret       |-> "none",     \* the error returned, once returned
      attempt   |-> 0,          \* the loop counter of ConnectCNIToTelemetryService
      defers    |-> <<>>,       \* the deferred calls, last registered last
      panicking |-> FALSE,
      handled   |-> FALSE,
      updateErr |-> "none",     \* the error handleIfCniUpdate returned (history)
      stdin     |-> NoStdin,    \* what getCmdArgsFromEnv read, once read (history)
      Connected |-> FALSE,
      kvLocked  |-> FALSE ]     \* LockKeyValueStore taken and not yet released

\* rootExecute has not been entered
NoRoot == [RootStart("VERSION", "linux") EXCEPT !.pc = "none"]

\* errors.Wrap: nil for a nil error
Wrap(err, msg) == IF err = NilError THEN NilError ELSE msg \o ": " \o err

---------------------------------------------------------------------------
(* Spec: every method called on one object, in any order *)

Init ==
    /\ \E m \in Metadatas :
          /\ set = NewIPSet(m)
          /\ emitted = GetPrefixNameLogs(m)
    /\ prev = set
    /\ lastCall = Call("NewIPSet", "", "")
    /\ sets = [p \in CachePtrs |-> NewIPSet(MetaOf(p))]
    /\ refHist = NoRefHist
    /\ tax = NoTax
    /\ conc = NoConc
    /\ tb = NoTelemetryBuffer
    /\ root = NoRoot
    /\ slice = NoSlice

Call_incIPSetReferCount ==
    /\ set.ipsetReferCount < MaxCount
    /\ set' = incIPSetReferCount(set)
    /\ prev' = set
    /\ emitted' = 0
    /\ lastCall' = Call("incIPSetReferCount", "", "")
    /\ UNCHANGED <<sets, refHist, tax, conc, tb, root, slice>>

Call_decIPSetReferCount ==
    /\ set' = decIPSetReferCount(set)
    /\ prev' = set
    /\ emitted' = decLogs(set)
    /\ lastCall' = Call("decIPSetReferCount", "", "")
    /\ UNCHANGED <<sets, refHist, tax, conc, tb, root, slice>>

Call_incKernelReferCount ==
    /\ set.kernelReferCount < MaxCount
    /\ set' = incKernelReferCount(set)
    /\ prev' = set
    /\ emitted' = 0
    /\ lastCall' = Call("incKernelReferCount", "", "")
    /\ UNCHANGED <<sets, refHist, tax, conc, tb, root, slice>>

Call_decKernelReferCount ==
    /\ set' = decKernelReferCount(set)
    /\ prev' = set
    /\ emitted' = decLogs(set)
    /\ lastCall' = Call("decKernelReferCount", "", "")
    /\ UNCHANGED <<sets, refHist, tax, conc, tb, root, slice>>

Call_addReference ==
    \E referenceName \in Policies, referenceType \in ReferenceTypes :
        /\ set' = addReference(set, referenceName, referenceType)
        /\ prev' = set
        /\ emitted' = referenceLogs(referenceType)
        /\ lastCall' = Call("addReference", referenceName, referenceType)
        /\ UNCHANGED <<sets, refHist, tax, conc, tb, root, slice>>

Call_deleteReference ==
    \E referenceName \in Policies, referenceType \in ReferenceTypes :
        /\ set' = deleteReference(set, referenceName, referenceType)
        /\ prev' = set
        /\ emitted' = referenceLogs(referenceType)
        /\ lastCall' = Call("deleteReference", referenceName, referenceType)
        /\ UNCHANGED <<sets, refHist, tax, conc, tb, root, slice>>

\* the owner of the object stores a child in the membership map of a list
InsertMember ==
    \E member \in MemberPtrs :
        /\ set.Kind = ListSet
        /\ set' = [set EXCEPT !.MemberIPSets = mapPut(@, HashedNameOf(member), member)]
        /\ prev' = set
        /\ emitted' = 0
        /\ lastCall' = Call("InsertMember", member, "")
        /\ UNCHANGED <<sets, refHist, tax, conc, tb, root, slice>>

\* the owner of the object deletes a child from the membership map of a list
RemoveMember ==
    \E member \in MemberPtrs :
        /\ set.Kind = ListSet
        /\ hasMember(set, HashedNameOf(member))
        /\ set' = [set EXCEPT !.MemberIPSets = mapDelete(@, HashedNameOf(member))]
        /\ prev' = set
        /\ emitted' = 0
        /\ lastCall' = Call("RemoveMember", member, "")
        /\ UNCHANGED <<sets, refHist, tax, conc, tb, root, slice>>

\* the owner of the object stores a leaf member of a hash set
InsertIP ==
    \E ip \in IPs, podKey \in PodKeys :
        /\ set.Kind = HashSet
        /\ set' = [set EXCEPT !.IPPodKey = mapPut(@, ip, podKey)]
        /\ prev' = set
        /\ emitted' = 0
        /\ lastCall' = Call("InsertIP", ip, podKey)
        /\ UNCHANGED <<sets, refHist, tax, conc, tb, root, slice>>

\* the owner of the object deletes a leaf member of a hash set
RemoveIP ==
    \E ip \in IPs :
        /\ set.Kind = HashSet
        /\ ip \in keys(set.IPPodKey)
        /\ set' = [set EXCEPT !.IPPodKey = mapDelete(@, ip)]
        /\ prev' = set
        /\ emitted' = 0
        /\ lastCall' = Call("RemoveIP", ip, "")
        /\ UNCHANGED <<sets, refHist, tax, conc, tb, root, slice>>

Next ==
    \/ Call_incIPSetReferCount
    \/ Call_decIPSetReferCount
    \/ Call_incKernelReferCount
    \/ Call_decKernelReferCount
    \/ Call_addReference
    \/ Call_deleteReference
    \/ InsertMember
    \/ RemoveMember
    \/ InsertIP
    \/ RemoveIP

Spec == Init /\ [][Next]_vars

---------------------------------------------------------------------------
(* SpecPaired: a cache whose owner pairs membership changes with the list  *)
(* reference count of the child                                            *)

InitPaired ==
    /\ set = NewIPSet(MetaOf("l1"))
    /\ prev = set
    /\ emitted = 0
    /\ lastCall = Call("NewIPSet", "", "")
    /\ sets = [p \in CachePtrs |-> NewIPSet(MetaOf(p))]
    /\ refHist = NoRefHist
    /\ tax = NoTax
    /\ conc = NoConc
    /\ tb = NoTelemetryBuffer
    /\ root = NoRoot
    /\ slice = NoSlice

Lists == {p \in CachePtrs : getSetKind(MetaOf(p).Type) = ListSet}
Children == {p \in CachePtrs : getSetKind(MetaOf(p).Type) = HashSet}

\* the lists whose membership map holds child under its hashed name
ParentsOf(child) ==
    {l \in Lists : /\ hasMember(sets[l], HashedNameOf(child))
                   /\ sets[l].MemberIPSets[HashedNameOf(child)] = child}

Cache_addReference ==
    \E in \in PairedReferences :
        /\ sets' = [sets EXCEPT ![in[1]] = addReference(@, in[2], in[3])]
        /\ lastCall' = Call("addReference", "", "")
        /\ UNCHANGED <<set, prev, emitted, refHist, tax, conc, tb, root, slice>>

Cache_deleteReference ==
    \E in \in PairedReferences :
        /\ sets' = [sets EXCEPT ![in[1]] = deleteReference(@, in[2], in[3])]
        /\ lastCall' = Call("deleteReference", "", "")
        /\ UNCHANGED <<set, prev, emitted, refHist, tax, conc, tb, root, slice>>

\* insertion of child into list, with its one incIPSetReferCount
AddToList ==
    \E list \in Lists, child \in Children :
        /\ ~hasMember(sets[list], HashedNameOf(child))
        /\ sets' = [sets EXCEPT
                      ![list] = [@ EXCEPT !.MemberIPSets =
                                    mapPut(@, HashedNameOf(child), child)],
                      ![child] = incIPSetReferCount(@)]
        /\ lastCall' = Call("AddToList", list, child)
        /\ UNCHANGED <<set, prev, emitted, refHist, tax, conc, tb, root, slice>>

\* removal of child from list, with its one decIPSetReferCount
RemoveFromList ==
    \E list \in Lists, child \in Children :
        /\ hasMember(sets[list], HashedNameOf(child))
        /\ sets' = [sets EXCEPT
                      ![list] = [@ EXCEPT !.MemberIPSets =
                                    mapDelete(@, HashedNameOf(child))],
                      ![child] = decIPSetReferCount(@)]
        /\ lastCall' = Call("RemoveFromList", list, child)
        /\ UNCHANGED <<set, prev, emitted, refHist, tax, conc, tb, root, slice>>

\* destruction of a list that is no longer referenced: each member leaves the
\* list, with its one decIPSetReferCount, and the list object is dropped (a
\* later reference builds it anew)
DestroyList ==
    \E list \in Lists :
        /\ canBeForceDeleted(sets[list])
        /\ len(sets[list].MemberIPSets) > 0
        /\ sets' = [p \in CachePtrs |->
                      IF p = list THEN NewIPSet(MetaOf(list))
                      ELSE IF p \in values(sets[list].MemberIPSets)
                           THEN decIPSetReferCount(sets[p])
                           ELSE sets[p]]
        /\ lastCall' = Call("DestroyList", list, "")
        /\ UNCHANGED <<set, prev, emitted, refHist, tax, conc, tb, root, slice>>

Cache_InsertIP ==
    \E child \in Children, ip \in PairedIPs, podKey \in PodKeys :
        /\ ip \notin keys(sets[child].IPPodKey)
        /\ sets' = [sets EXCEPT ![child] = [@ EXCEPT !.IPPodKey = mapPut(@, ip, podKey)]]
        /\ lastCall' = Call("InsertIP", "", "")
        /\ UNCHANGED <<set, prev, emitted, refHist, tax, conc, tb, root, slice>>

Cache_RemoveIP ==
    \E child \in Children, ip \in PairedIPs :
        /\ ip \in keys(sets[child].IPPodKey)
        /\ sets' = [sets EXCEPT ![child] = [@ EXCEPT !.IPPodKey = mapDelete(@, ip)]]
        /\ lastCall' = Call("RemoveIP", "", "")
        /\ UNCHANGED <<set, prev, emitted, refHist, tax, conc, tb, root, slice>>

NextPaired ==
    \/ Cache_addReference
    \/ Cache_deleteReference
    \/ AddToList
    \/ RemoveFromList
    \/ DestroyList
    \/ Cache_InsertIP
    \/ Cache_RemoveIP

SpecPaired == InitPaired /\ [][NextPaired]_vars

---------------------------------------------------------------------------
(* SpecRefs: addReference and deleteReference alone, with their history *)

Refs_addReference ==
    \E referenceName \in Policies, referenceType \in ReferenceTypes :
        /\ set' = addReference(set, referenceName, referenceType)
        /\ prev' = set
        /\ emitted' = referenceLogs(referenceType)
        /\ lastCall' = Call("addReference", referenceName, referenceType)
        /\ refHist' = IF referenceType \in {SelectorType, NetPolType}
                      THEN [refHist EXCEPT ![<<referenceName, referenceType>>] = "add"]
                      ELSE refHist
        /\ UNCHANGED <<sets, tax, conc, tb, root, slice>>

Refs_deleteReference ==
    \E referenceName \in Policies, referenceType \in ReferenceTypes :
        /\ set' = deleteReference(set, referenceName, referenceType)
        /\ prev' = set
        /\ emitted' = referenceLogs(referenceType)
        /\ lastCall' = Call("deleteReference", referenceName, referenceType)
        /\ refHist' = IF referenceType \in {SelectorType, NetPolType}
                      THEN [refHist EXCEPT ![<<referenceName, referenceType>>] = "delete"]
                      ELSE refHist
        /\ UNCHANGED <<sets, tax, conc, tb, root, slice>>

NextRefs ==
    \/ Refs_addReference
    \/ Refs_deleteReference

SpecRefs == Init /\ [][NextRefs]_vars

---------------------------------------------------------------------------
(* SpecTaxonomy: the taxonomy functions applied to drawn inputs *)

\* the values of the type SetType (int8)
Int8 == -128..127

\* the declared SetType constants
SetTypes ==
    { UnknownType, Namespace, KeyLabelOfNamespace, KeyValueLabelOfNamespace,
      KeyLabelOfPod, KeyValueLabelOfPod, NamedPorts, NestedLabelOfPod, CIDRBlocks,
      EmptyHashSet }

KnownTypes == SetTypes \ {UnknownType}

\* the types and names of the metadata drawn: every declared type and four
\* undeclared values
TaxTypes == SetTypes \cup {-128, -1, 10, 127}
TaxNames == {"x", "app:web", ""}
TaxMetadatas == {NewIPSetMetadata(n, t) : n \in TaxNames, t \in TaxTypes}

\* the member lists drawn
MemberLists == UNION {[1..n -> TaxNames] : n \in 0..MaxMembers}

\* the calls drawn: the function to call and its arguments
TaxInputs ==
    {[NoTax EXCEPT !.op = "names", !.m1 = a, !.m2 = b] :
        a \in TaxMetadatas, b \in TaxMetadatas}
    \cup {[NoTax EXCEPT !.op = "getSetKind", !.m1 = NewIPSetMetadata("", t)] : t \in Int8}
    \cup {[NoTax EXCEPT !.op = "NewIPSet", !.m1 = a] : a \in TaxMetadatas}
    \cup {[NoTax EXCEPT !.op = "GetMembersOfTranslatedSets", !.members = members] :
             members \in MemberLists}

InitTaxonomy ==
    /\ set = NewIPSet(MetaOf("l1"))
    /\ prev = set
    /\ emitted = 0
    /\ lastCall = Call("NewIPSet", "", "")
    /\ sets = [p \in CachePtrs |-> NewIPSet(MetaOf(p))]
    /\ refHist = NoRefHist
    /\ tax \in TaxInputs
    /\ conc = NoConc
    /\ tb = NoTelemetryBuffer
    /\ root = NoRoot
    /\ slice = NoSlice

\* GetPrefixName, GetHashedName and GetSetKind called on the metadata drawn
Tax_Names ==
    /\ tax.op = "names"
    /\ ~tax.done
    /\ tax' = [tax EXCEPT !.prefix1 = GetPrefixName(tax.m1),
                          !.prefix2 = GetPrefixName(tax.m2),
                          !.hashed1 = GetHashedName(tax.m1),
                          !.hashed2 = GetHashedName(tax.m2),
                          !.kind = GetSetKind(tax.m1),
                          !.logs = GetPrefixNameLogs(tax.m1),
                          !.done = TRUE]
    /\ UNCHANGED <<set, prev, emitted, lastCall, sets, refHist, conc, tb, root, slice>>

\* getSetKind called on the SetType value drawn
Tax_getSetKind ==
    /\ tax.op = "getSetKind"
    /\ ~tax.done
    /\ tax' = [tax EXCEPT !.kind = getSetKind(tax.m1.Type), !.done = TRUE]
    /\ UNCHANGED <<set, prev, emitted, lastCall, sets, refHist, conc, tb, root, slice>>

Tax_GetMembersOfTranslatedSets ==
    /\ tax.op = "GetMembersOfTranslatedSets"
    /\ ~tax.done
    /\ tax' = [tax EXCEPT !.list = GetMembersOfTranslatedSets(tax.members),
                          !.done = TRUE]
    /\ UNCHANGED <<set, prev, emitted, lastCall, sets, refHist, conc, tb, root, slice>>

\* NewIPSet called on the metadata drawn; GetPrefixName and GetHashedName of the
\* same metadata are recorded next to the object built
Tax_NewIPSet ==
    /\ tax.op = "NewIPSet"
    /\ ~tax.done
    /\ set' = NewIPSet(tax.m1)
    /\ prev' = set
    /\ tax' = [tax EXCEPT !.prefix1 = GetPrefixName(tax.m1),
                          !.hashed1 = GetHashedName(tax.m1),
                          !.kind = GetSetKind(tax.m1),
                          !.logs = GetPrefixNameLogs(tax.m1),
                          !.done = TRUE]
    /\ UNCHANGED <<emitted, lastCall, sets, refHist, conc, tb, root, slice>>

NextTaxonomy ==
    \/ Tax_Names
    \/ Tax_NewIPSet
    \/ Tax_getSetKind
    \/ Tax_GetMembersOfTranslatedSets

SpecTaxonomy == InitTaxonomy /\ [][NextTaxonomy]_vars

---------------------------------------------------------------------------
(* SpecConcurrent: two actors call the mutating methods of one object; each *)
(* method body is a read of the field followed by a write of it, and the    *)
(* engine that owns the object holds its lock around every call             *)

InitConcurrent ==
    /\ set = NewIPSet(MetaOf("l1"))
    /\ prev = set
    /\ emitted = 0
    /\ lastCall = Call("NewIPSet", "", "")
    /\ sets = [p \in CachePtrs |-> NewIPSet(MetaOf(p))]
    /\ refHist = NoRefHist
    /\ tax = NoTax
    /\ conc = NoConc
    /\ tb = NoTelemetryBuffer
    /\ root = NoRoot
    /\ slice = NoSlice

\* variant of the lock that is granted whoever holds it
lockAvailable_always(c) == TRUE

\* the lock of the engine can be taken
lockAvailable(c) == c.lock = "none"

\* an actor is about to call a method through the engine
Conc_Invoke ==
    \E a \in Actors, c \in ConcCalls :
        /\ conc.pc[a] = "idle"
        /\ conc' = [conc EXCEPT !.pc[a] = "waiting", !.op[a] = c]
        /\ UNCHANGED <<set, prev, emitted, lastCall, sets, refHist, tax, tb, root, slice>>

\* the engine takes its lock for the call; the calls take effect in this order
Conc_Lock ==
    \E a \in Actors :
        /\ conc.pc[a] = "waiting"
        /\ lockAvailable(conc)
        /\ conc.op[a].op = "incIPSetReferCount" => conc.obj.ipsetReferCount < MaxCount
        /\ conc.op[a].op = "incKernelReferCount" => conc.obj.kernelReferCount < MaxCount
        /\ conc' = [conc EXCEPT !.pc[a] = "locked", !.lock = a,
                                !.lin = applyCall(@, conc.op[a])]
        /\ UNCHANGED <<set, prev, emitted, lastCall, sets, refHist, tax, tb, root, slice>>

\* the method reads the object
Conc_Load ==
    \E a \in Actors :
        /\ conc.pc[a] = "locked"
        /\ conc' = [conc EXCEPT !.pc[a] = "loaded", !.local[a] = conc.obj]
        /\ UNCHANGED <<set, prev, emitted, lastCall, sets, refHist, tax, tb, root, slice>>

\* the method writes its field, computed from what it read; a call that changes
\* nothing (a decrement at 0, a reference already there) writes nothing
Conc_Store ==
    \E a \in Actors :
        LET c == conc.op[a]
            result == applyCall(conc.local[a], c)
        IN  /\ conc.pc[a] = "loaded"
            /\ conc' = [conc EXCEPT
                          !.pc[a] = "stored",
                          !.local[a] = NoConc.local[a],
                          !.obj = IF result = conc.local[a] THEN @
                                  ELSE [@ EXCEPT ![fieldOf(c)] = result[fieldOf(c)]]]
            /\ UNCHANGED <<set, prev, emitted, lastCall, sets, refHist, tax, tb, root, slice>>

\* the engine releases its lock and the call returns
Conc_Unlock ==
    \E a \in Actors :
        /\ conc.pc[a] = "stored"
        /\ conc' = [conc EXCEPT !.pc[a] = "idle",
                                !.op[a] = NoConc.op[a],
                                !.lock = IF @ = a THEN "none" ELSE @]
        /\ UNCHANGED <<set, prev, emitted, lastCall, sets, refHist, tax, tb, root, slice>>

NextConcurrent ==
    \/ Conc_Invoke
    \/ Conc_Lock
    \/ Conc_Load
    \/ Conc_Store
    \/ Conc_Unlock

SpecConcurrent == InitConcurrent /\ [][NextConcurrent]_vars

---------------------------------------------------------------------------
(* SpecRoot: rootExecute of the CNI plugin, statement by statement, with    *)
(* the outcome of every call it makes drawn from the possible ones          *)

InitRoot ==
    /\ set = NewIPSet(MetaOf("l1"))
    /\ prev = set
    /\ emitted = 0
    /\ lastCall = Call("NewIPSet", "", "")
    /\ sets = [p \in CachePtrs |-> NewIPSet(MetaOf(p))]
    /\ refHist = NoRefHist
    /\ tax = NoTax
    /\ conc = NoConc
    /\ tb = NoTelemetryBuffer
    /\ \E cniCmd \in CniCmds, goos \in GOOS : root = RootStart(cniCmd, goos)
    /\ slice = NoSlice

\* variant of Connect that, as ConnectToTelemetryService does, starts the
\* telemetry service when the dial fails
Connect_starting(FdExists, dialOk) ==
    IF dialOk THEN <<"Dial:ok">>
    ELSE <<"Dial:err", "Cleanup", "StartTelemetryService">>

\* the calls TelemetryBuffer.Connect makes, given FdExists and the outcome of Dial
Connect(FdExists, dialOk) ==
    IF dialOk THEN <<"Dial:ok">>
    ELSE IF FdExists THEN <<"Dial:err", "Cleanup">>
    ELSE <<"Dial:err">>

\* network.NewPlugin
Root_NewPlugin ==
    \E ok \in BOOLEAN :
        /\ root.pc = "NewPlugin"
        /\ root' =
              IF ~ok
              THEN [root EXCEPT !.trace = @ \o <<"NewPlugin:err", "printCNIError">>,
                                !.err = "error",
                                !.ret = Wrap("error", "Create plugin error"),
                                !.pc = "returned"]
              ELSE [root EXCEPT !.trace = Append(@, "NewPlugin:ok"),
                                !.pc = IF root.cniCmd # "VERSION"
                                       THEN "InitializeKeyValueStore"
                                       ELSE "handleIfCniUpdate"]
        /\ UNCHANGED <<set, prev, emitted, lastCall, sets, refHist, tax, conc, tb, slice>>

\* netPlugin.Plugin.InitializeKeyValueStore, and on success the registration of
\* the deferred UninitializeKeyValueStore
Root_InitializeKeyValueStore ==
    \E outcome \in {NilError, "ErrTimeoutLockingStore", "error"} :
        /\ root.pc = "InitializeKeyValueStore"
        /\ root' =
              IF outcome = NilError
              THEN [root EXCEPT !.trace = Append(@, "InitializeKeyValueStore:ok"),
                                !.err = outcome,
                                !.defers = Append(@, "UninitializeKeyValueStore"),
                                !.pc = "ConnectCNI_Connect"]
              ELSE [root EXCEPT !.trace = @ \o <<"InitializeKeyValueStore:err",
                                                 "printCNIError">>,
                                !.err = outcome,
                                !.pc = "InitFailed"]
        /\ UNCHANGED <<set, prev, emitted, lastCall, sets, refHist, tax, conc, tb, slice>>

\* the branch taken when InitializeKeyValueStore failed: a new buffer connects,
\* the error is reported and rootExecute returns
Root_InitFailed ==
    \E dialOk \in BOOLEAN :
        /\ root.pc = "InitFailed"
        /\ root' =
              [root EXCEPT
                 !.trace = @ \o Connect(FALSE, dialOk)
                             \o (IF ~dialOk THEN <<>>
                                 ELSE <<"reportPluginError">>
                                      \o (IF root.err = "ErrTimeoutLockingStore"
                                          THEN <<"SendCNIMetric">> ELSE <<>>)
                                      \o <<"tb.Close">>),
                 !.Connected = dialOk,
                 !.ret = Wrap(root.err, "lock acquire error"),
                 !.pc = "returned"]
        /\ UNCHANGED <<set, prev, emitted, lastCall, sets, refHist, tax, conc, tb, slice>>

\* ConnectCNIToTelemetryService: the head of the loop and tb.Connect
Root_ConnectCNI_Connect ==
    \E dialOk \in BOOLEAN :
        /\ root.pc = "ConnectCNI_Connect"
        /\ root' =
              IF root.attempt >= 2
              THEN [root EXCEPT !.err = NilError, !.pc = "Start"]
              ELSE IF dialOk
              THEN [root EXCEPT !.trace = @ \o Connect(FALSE, dialOk),
                                !.Connected = TRUE,
                                !.err = NilError,
                                !.pc = "Start"]
              ELSE [root EXCEPT !.trace = @ \o Connect(FALSE, dialOk),
                                !.pc = IF root.goos = "windows"
                                       THEN "ConnectCNI_Lock" ELSE "ConnectCNI_Cleanup"]
        /\ UNCHANGED <<set, prev, emitted, lastCall, sets, refHist, tax, conc, tb, slice>>

\* netPlugin.LockKeyValueStore, on windows
Root_ConnectCNI_Lock ==
    \E ok \in BOOLEAN :
        /\ root.pc = "ConnectCNI_Lock"
        /\ root' =
              IF ok
              THEN [root EXCEPT !.trace = Append(@, "LockKeyValueStore:ok"),
                                !.kvLocked = TRUE,
                                !.pc = "ConnectCNI_Cleanup"]
              ELSE [root EXCEPT !.trace = Append(@, "LockKeyValueStore:err"),
                                !.err = Wrap("error", "lock acquire error"),
                                !.pc = "Start"]
        /\ UNCHANGED <<set, prev, emitted, lastCall, sets, refHist, tax, conc, tb, slice>>

\* tb.Cleanup
Root_ConnectCNI_Cleanup ==
    \E ok \in BOOLEAN :
        /\ root.pc = "ConnectCNI_Cleanup"
        /\ root' =
              IF ok
              THEN [root EXCEPT !.trace = Append(@, "Cleanup:ok"),
                                !.pc = "ConnectCNI_StartTelemetryService"]
              ELSE [root EXCEPT !.trace = Append(@, "Cleanup:err"),
                                !.err = Wrap("error", "cleanup failed"),
                                !.pc = "Start"]
        /\ UNCHANGED <<set, prev, emitted, lastCall, sets, refHist, tax, conc, tb, slice>>

\* StartTelemetryService: the running service is killed and a new one started
Root_ConnectCNI_StartTelemetryService ==
    \E ok \in BOOLEAN :
        /\ root.pc = "ConnectCNI_StartTelemetryService"
        /\ root' =
              IF ok
              THEN [root EXCEPT !.trace = @ \o <<"StartTelemetryService",
                                                 "WaitForTelemetrySocket">>,
                                !.pc = IF root.goos = "windows"
                                       THEN "ConnectCNI_Unlock" ELSE "ConnectCNI_Connect",
                                !.attempt = IF root.goos = "windows" THEN @ ELSE @ + 1]
              ELSE [root EXCEPT !.trace = Append(@, "StartTelemetryService"),
                                !.err = Wrap("error", "StartTelemetryService failed"),
                                !.pc = "Start"]
        /\ UNCHANGED <<set, prev, emitted, lastCall, sets, refHist, tax, conc, tb, slice>>

\* netPlugin.UnLockKeyValueStore, on windows, and the end of the loop body
Root_ConnectCNI_Unlock ==
    \E ok \in BOOLEAN :
        /\ root.pc = "ConnectCNI_Unlock"
        /\ root' =
              IF ok
              THEN [root EXCEPT !.trace = Append(@, "UnLockKeyValueStore:ok"),
                                !.kvLocked = FALSE,
                                !.attempt = @ + 1,
                                !.pc = "ConnectCNI_Connect"]
              ELSE [root EXCEPT !.trace = Append(@, "UnLockKeyValueStore:err"),
                                !.err = Wrap("error", "failed to relinquish lock error"),
                                !.pc = "Start"]
        /\ UNCHANGED <<set, prev, emitted, lastCall, sets, refHist, tax, conc, tb, slice>>

\* the registration of the deferred tb.Close, SetCNIReport and netPlugin.Start;
\* a failed Start is reported and panics
Root_Start ==
    \E ok \in BOOLEAN :
        /\ root.pc = "Start"
        /\ root' =
              IF ok
              THEN [root EXCEPT !.defers = Append(@, "tb.Close"),
                                !.trace = Append(@, "Start:ok"),
                                !.err = NilError,
                                !.pc = IF root.cniCmd = "GET_ENDPOINT_STATE"
                                       THEN "GetState" ELSE "handleIfCniUpdate"]
              ELSE [root EXCEPT !.defers = Append(@, "tb.Close"),
                                !.trace = @ \o <<"Start:err", "printCNIError",
                                                 "reportPluginError", "panic">>,
                                !.err = "error",
                                !.panicking = TRUE,
                                !.pc = "deferred"]
        /\ UNCHANGED <<set, prev, emitted, lastCall, sets, refHist, tax, conc, tb, slice>>

\* the branch of GET_ENDPOINT_STATE: GetAllEndpointState, PrintResult, return
Root_GetState ==
    \E outcome \in {"GetAllEndpointState:err", "PrintResult:err", "PrintResult:ok"} :
        /\ root.pc = "GetState"
        /\ root' =
              CASE outcome = "GetAllEndpointState:err" ->
                      [root EXCEPT !.trace = Append(@, outcome),
                                   !.err = "error",
                                   !.ret = Wrap("error", "Get all endpoints error"),
                                   !.pc = "deferred"]
                [] outcome = "PrintResult:err" ->
                      [root EXCEPT !.trace = @ \o <<"GetAllEndpointState:ok", outcome>>,
                                   !.err = "error",
                                   !.ret = Wrap("error", "Get cni state printresult error"),
                                   !.pc = "deferred"]
                [] OTHER ->
                      [root EXCEPT !.trace = @ \o <<"GetAllEndpointState:ok", outcome>>,
                                   !.err = NilError,
                                   !.ret = Wrap(NilError, "Get cni state printresult error"),
                                   !.pc = "deferred"]
        /\ UNCHANGED <<set, prev, emitted, lastCall, sets, refHist, tax, conc, tb, slice>>

\* what standard input holds: whether it can be read, whether it is JSON, and
\* the network name the JSON gives
Stdins == [readOk : BOOLEAN, json : BOOLEAN, name : {"", "azure"}]

validateConfig(conf) ==
    IF ~conf.json THEN "error reading network config"
    ELSE IF conf.name = "" THEN "missing network name"
    ELSE NilError

\* variant of handleIfCniUpdate that calls the update callback before it
\* validates the config
handleIfCniUpdate_updateFirst(cniCommand, stdin, updateOk) ==
    IF cniCommand # "UPDATE"
    THEN [handled |-> FALSE, err |-> NilError, calls |-> <<>>]
    ELSE IF ~stdin.readOk
    THEN [handled |-> TRUE, err |-> "error reading from stdin",
          calls |-> <<"getCmdArgsFromEnv:err">>]
    ELSE IF ~updateOk
    THEN [handled |-> TRUE, err |-> "error",
          calls |-> <<"getCmdArgsFromEnv:ok", "update:err">>]
    ELSE IF validateConfig(stdin) # NilError
    THEN [handled |-> TRUE, err |-> validateConfig(stdin),
          calls |-> <<"getCmdArgsFromEnv:ok", "update:ok", "validateConfig:err">>]
    ELSE [handled |-> TRUE, err |-> NilError,
          calls |-> <<"getCmdArgsFromEnv:ok", "update:ok", "validateConfig:ok">>]

\* handleIfCniUpdate: its two results and the calls it makes
handleIfCniUpdate(cniCommand, stdin, updateOk) ==
    IF cniCommand # "UPDATE"
    THEN [handled |-> FALSE, err |-> NilError, calls |-> <<>>]
    ELSE IF ~stdin.readOk
    THEN [handled |-> TRUE, err |-> "error reading from stdin",
          calls |-> <<"getCmdArgsFromEnv:err">>]
    ELSE IF validateConfig(stdin) # NilError
    THEN [handled |-> TRUE, err |-> validateConfig(stdin),
          calls |-> <<"getCmdArgsFromEnv:ok", "validateConfig:err">>]
    ELSE IF ~updateOk
    THEN [handled |-> TRUE, err |-> "error",
          calls |-> <<"getCmdArgsFromEnv:ok", "validateConfig:ok", "update:err">>]
    ELSE [handled |-> TRUE, err |-> NilError,
          calls |-> <<"getCmdArgsFromEnv:ok", "validateConfig:ok", "update:ok">>]

\* handled, _ := handleIfCniUpdate(netPlugin.Update): the error is dropped
Root_handleIfCniUpdate ==
    \E stdin \in Stdins, updateOk \in BOOLEAN :
        LET r == handleIfCniUpdate(root.cniCmd, stdin, updateOk)
        IN  /\ root.pc = "handleIfCniUpdate"
            /\ root' = [root EXCEPT !.trace = @ \o r.calls,
                                    !.handled = r.handled,
                                    !.updateErr = r.err,
                                    !.stdin = IF root.cniCmd = "UPDATE" THEN stdin ELSE @,
                                    !.pc = IF r.handled THEN "Finish" ELSE "Execute"]
            /\ UNCHANGED <<set, prev, emitted, lastCall, sets, refHist, tax, conc, tb, slice>>

\* netPlugin.Execute
Root_Execute ==
    \E ok \in BOOLEAN :
        /\ root.pc = "Execute"
        /\ root' = [root EXCEPT !.trace = Append(@, IF ok THEN "Execute:ok" ELSE "Execute:err"),
                                !.err = IF ok THEN NilError ELSE "error",
                                !.pc = "Finish"]
        /\ UNCHANGED <<set, prev, emitted, lastCall, sets, refHist, tax, conc, tb, slice>>

\* the end of rootExecute: the return of VERSION, or Stop, the report of err
\* and the return
Root_Finish ==
    /\ root.pc = "Finish"
    /\ root' =
          IF root.cniCmd = "VERSION"
          THEN [root EXCEPT !.ret = Wrap(root.err, "Execute netplugin failure"),
                            !.pc = "deferred"]
          ELSE [root EXCEPT !.trace = @ \o <<"Stop">>
                                        \o (IF root.err # NilError
                                            THEN <<"reportPluginError">> ELSE <<>>),
                            !.ret = Wrap(root.err, "Execute netplugin failure"),
                            !.pc = "deferred"]
    /\ UNCHANGED <<set, prev, emitted, lastCall, sets, refHist, tax, conc, tb, slice>>

\* variant of the deferred function that recovers and exits before it calls
\* UninitializeKeyValueStore
Root_Deferred_exitFirst ==
    /\ root.pc = "deferred"
    /\ root' =
          IF root.defers = <<>>
          THEN [root EXCEPT !.pc = "returned"]
          ELSE LET call == root.defers[Len(root.defers)]
                   rest == SubSeq(root.defers, 1, Len(root.defers) - 1)
               IN  IF call = "UninitializeKeyValueStore" /\ root.panicking
                   THEN [root EXCEPT !.trace = @ \o <<"os.Exit">>,
                                     !.defers = rest,
                                     !.pc = "exited"]
                   ELSE [root EXCEPT !.trace = Append(@, call), !.defers = rest]
    /\ UNCHANGED <<set, prev, emitted, lastCall, sets, refHist, tax, conc, tb, slice>>

\* the deferred calls run, the last registered first: tb.Close, then the
\* function that calls UninitializeKeyValueStore and exits the process when
\* recover() finds a panic
Root_Deferred ==
    /\ root.pc = "deferred"
    /\ root' =
          IF root.defers = <<>>
          THEN [root EXCEPT !.pc = "returned"]
          ELSE LET call == root.defers[Len(root.defers)]
                   rest == SubSeq(root.defers, 1, Len(root.defers) - 1)
               IN  IF call = "UninitializeKeyValueStore" /\ root.panicking
                   THEN [root EXCEPT !.trace = @ \o <<call, "os.Exit">>,
                                     !.defers = rest,
                                     !.pc = "exited"]
                   ELSE [root EXCEPT !.trace = Append(@, call), !.defers = rest]
    /\ UNCHANGED <<set, prev, emitted, lastCall, sets, refHist, tax, conc, tb, slice>>

NextRoot ==
    \/ Root_NewPlugin
    \/ Root_InitializeKeyValueStore
    \/ Root_InitFailed
    \/ Root_ConnectCNI_Connect
    \/ Root_ConnectCNI_Lock
    \/ Root_ConnectCNI_Cleanup
    \/ Root_ConnectCNI_StartTelemetryService
    \/ Root_ConnectCNI_Unlock
    \/ Root_Start
    \/ Root_GetState
    \/ Root_handleIfCniUpdate
    \/ Root_Execute
    \/ Root_Finish
    \/ Root_Deferred

SpecRoot == InitRoot /\ [][NextRoot]_vars

---------------------------------------------------------------------------
(* SpecTelemetry: a TelemetryBuffer, the goroutine that owns it (Connect    *)
(* and Close, or StartServer, PushData and the deferred Close), the accept  *)
(* goroutine and the worker goroutines of StartServer, and the callers of   *)
(* Cancel and of the context's cancel function                              *)

InitTelemetry ==
    /\ set = NewIPSet(MetaOf("l1"))
    /\ prev = set
    /\ emitted = 0
    /\ lastCall = Call("NewIPSet", "", "")
    /\ sets = [p \in CachePtrs |-> NewIPSet(MetaOf(p))]
    /\ refHist = NoRefHist
    /\ tax = NoTax
    /\ conc = NoConc
    /\ tb = NewTelemetryBuffer
    /\ root = NoRoot
    /\ slice = NoSlice

\* variant of remove that drops the last element without moving it
remove_dropLast(s, i) ==
    IF Len(s) > 0 /\ i < Len(s)
    THEN SubSeq(s, 1, Len(s) - 1)
    ELSE s

\* remove(s, i): the last element takes the place of the element at index i
\* (counted from 0) and the slice loses its last element
remove(s, i) ==
    IF Len(s) > 0 /\ i < Len(s)
    THEN SubSeq([s EXCEPT ![i + 1] = s[Len(s)]], 1, Len(s) - 1)
    ELSE s

\* the index (counted from 0) at which the range loop finds conn, or -1
indexOf(s, conn) ==
    IF \E i \in 1..Len(s) : s[i] = conn
    THEN (CHOOSE i \in 1..Len(s) : s[i] = conn /\ \A j \in 1..(i - 1) : s[j] # conn) - 1
    ELSE -1

\* a client connects to the telemetry service
Tb_Connect ==
    \E dialOk \in BOOLEAN :
        /\ tb.main = "new"
        /\ tb' = IF dialOk
                 THEN [tb EXCEPT !.client = "open", !.Connected = TRUE, !.main = "connected"]
                 ELSE [tb EXCEPT !.main = "connected"]
        /\ UNCHANGED <<set, prev, emitted, lastCall, sets, refHist, tax, conc, root, slice>>

\* the client calls Close
Tb_CallClose ==
    /\ tb.main = "connected"
    /\ tb' = [tb EXCEPT !.main = "Close_client"]
    /\ UNCHANGED <<set, prev, emitted, lastCall, sets, refHist, tax, conc, root, slice>>

\* StartServer: Listen, and on success the accept goroutine is started; the
\* server then runs PushData
Tb_StartServer ==
    \E listenOk \in BOOLEAN :
        /\ tb.main = "new"
        /\ tb' = IF listenOk
                 THEN [tb EXCEPT !.listener = "open", !.acc = "Accept", !.main = "select"]
                 ELSE [tb EXCEPT !.main = "failed"]
        /\ UNCHANGED <<set, prev, emitted, lastCall, sets, refHist, tax, conc, root, slice>>

\* tb.listener.Accept returns a new connection, or an error once the listener
\* is closed, which ends the accept goroutine
Accept_Accept ==
    /\ tb.acc = "Accept"
    /\ \/ /\ tb.listener = "closed"
          /\ tb' = [tb EXCEPT !.acc = "exited"]
       \/ \E c \in Conns :
             /\ tb.listener = "open"
             /\ tb.worker[c] = "none"
             /\ c \notin tb.open
             /\ \A d \in Conns : d < c => tb.worker[d] # "none"
             /\ tb' = [tb EXCEPT !.acc = "lock", !.conn = c, !.open = @ \cup {c}]
    /\ UNCHANGED <<set, prev, emitted, lastCall, sets, refHist, tax, conc, root, slice>>

Accept_Lock ==
    /\ tb.acc = "lock"
    /\ tb.mutex = "none"
    /\ tb' = [tb EXCEPT !.acc = "append", !.mutex = "accept"]
    /\ UNCHANGED <<set, prev, emitted, lastCall, sets, refHist, tax, conc, root, slice>>

\* the connection is appended, the mutex released and the worker started
Accept_Append ==
    /\ tb.acc = "append"
    /\ tb' = [tb EXCEPT !.connections = Append(@, tb.conn),
                        !.mutex = "none",
                        !.worker[tb.conn] = "read",
                        !.conn = 0,
                        !.acc = "Accept"]
    /\ UNCHANGED <<set, prev, emitted, lastCall, sets, refHist, tax, conc, root, slice>>

\* read(conn) in a worker: a report to queue, bytes that are no JSON, which
\* end the worker, or an error (the peer or this side closed the connection)
Worker_Read ==
    \E c \in Conns, outcome \in {"report", "unmarshal error", "read error"} :
        /\ tb.worker[c] = "read"
        /\ outcome = "report" => c \in tb.open
        /\ outcome = "unmarshal error" => c \in tb.open
        /\ tb' = [tb EXCEPT !.worker[c] =
                     CASE outcome = "report" -> "send"
                       [] outcome = "unmarshal error" -> "exited"
                       [] OTHER -> "lock"]
        /\ UNCHANGED <<set, prev, emitted, lastCall, sets, refHist, tax, conc, root, slice>>

\* tb.data <- report, which blocks while the channel is full
Worker_Send ==
    \E c \in Conns :
        /\ tb.worker[c] = "send"
        /\ tb.data < MaxNumReports
        /\ tb' = [tb EXCEPT !.data = @ + 1, !.worker[c] = "read"]
        /\ UNCHANGED <<set, prev, emitted, lastCall, sets, refHist, tax, conc, root, slice>>

Worker_Lock ==
    \E c \in Conns :
        /\ tb.worker[c] = "lock"
        /\ tb.mutex = "none"
        /\ tb' = [tb EXCEPT !.worker[c] = "cleanup", !.mutex = "worker"]
        /\ UNCHANGED <<set, prev, emitted, lastCall, sets, refHist, tax, conc, root, slice>>

\* the worker looks its connection up in tb.connections; if it is there, it is
\* closed and removed; the deferred Unlock runs as the worker returns
Worker_Cleanup ==
    \E c \in Conns :
        LET index == indexOf(tb.connections, c)
            found == index >= 0
        IN  /\ tb.worker[c] = "cleanup"
            /\ tb' = [tb EXCEPT
                        !.open = IF found THEN @ \ {c} ELSE @,
                        !.connections = IF found THEN remove(@, index) ELSE @,
                        !.mutex = "none",
                        !.worker[c] = "exited"]
            /\ UNCHANGED <<set, prev, emitted, lastCall, sets, refHist, tax, conc, root, slice>>

\* variant of the select of PushData without the case of tb.cancel
selectCases_noCancel(t) ==
    (IF t.data > 0 THEN {"data"} ELSE {})
    \cup (IF t.ctxDone THEN {"Done"} ELSE {})

\* the cases of the select of PushData that can proceed; the runtime picks one
\* of them at random
selectCases(t) ==
    (IF t.data > 0 THEN {"data"} ELSE {})
    \cup (IF t.cancel > 0 THEN {"cancel"} ELSE {})
    \cup (IF t.ctxDone THEN {"Done"} ELSE {})

\* case report := <-tb.data
Push_Recv ==
    /\ tb.main = "select"
    /\ "data" \in selectCases(tb)
    /\ tb' = [tb EXCEPT !.data = @ - 1, !.main = "lock"]
    /\ UNCHANGED <<set, prev, emitted, lastCall, sets, refHist, tax, conc, root, slice>>

Push_Lock ==
    /\ tb.main = "lock"
    /\ tb.mutex = "none"
    /\ tb' = [tb EXCEPT !.mutex = "main", !.main = "push"]
    /\ UNCHANGED <<set, prev, emitted, lastCall, sets, refHist, tax, conc, root, slice>>

\* push(report) and the release of the mutex
Push_Push ==
    /\ tb.main = "push"
    /\ tb' = [tb EXCEPT !.pushes = (@ + 1) % 2, !.mutex = "none", !.main = "select"]
    /\ UNCHANGED <<set, prev, emitted, lastCall, sets, refHist, tax, conc, root, slice>>

\* case <-tb.cancel: PushData returns and the deferred Close begins
Push_Cancel ==
    /\ tb.main = "select"
    /\ "cancel" \in selectCases(tb)
    /\ tb' = [tb EXCEPT !.cancel = @ - 1, !.main = "Close_client"]
    /\ UNCHANGED <<set, prev, emitted, lastCall, sets, refHist, tax, conc, root, slice>>

\* case <-ctx.Done(): PushData returns and the deferred Close begins
Push_Done ==
    /\ tb.main = "select"
    /\ "Done" \in selectCases(tb)
    /\ tb' = [tb EXCEPT !.main = "Close_client"]
    /\ UNCHANGED <<set, prev, emitted, lastCall, sets, refHist, tax, conc, root, slice>>

\* Close: the client, if any, is closed and forgotten
Close_Client ==
    /\ tb.main = "Close_client"
    /\ tb' = [tb EXCEPT !.client = "nil", !.main = "Close_listener"]
    /\ UNCHANGED <<set, prev, emitted, lastCall, sets, refHist, tax, conc, root, slice>>

\* Close: the listener, if any, is closed
Close_Listener ==
    /\ tb.main = "Close_listener"
    /\ tb' = [tb EXCEPT !.listener = IF @ # "nil" THEN "closed" ELSE @,
                        !.main = "Close_lock"]
    /\ UNCHANGED <<set, prev, emitted, lastCall, sets, refHist, tax, conc, root, slice>>

Close_Lock ==
    /\ tb.main = "Close_lock"
    /\ tb.mutex = "none"
    /\ tb' = [tb EXCEPT !.mutex = "main", !.main = "Close_connections"]
    /\ UNCHANGED <<set, prev, emitted, lastCall, sets, refHist, tax, conc, root, slice>>

\* Close: every connection of tb.connections is closed, tb.connections is made
\* anew, and the deferred Unlock runs as Close returns
Close_Connections ==
    /\ tb.main = "Close_connections"
    /\ tb' = [tb EXCEPT !.open = @ \ {tb.connections[i] : i \in 1..Len(tb.connections)},
                        !.connections = <<>>,
                        !.mutex = "none",
                        !.main = "returned"]
    /\ UNCHANGED <<set, prev, emitted, lastCall, sets, refHist, tax, conc, root, slice>>

\* Cancel: tb.cancel <- true, which blocks while the channel holds a value
Tb_Cancel ==
    /\ tb.main \notin {"new", "connected", "failed"}
    /\ tb.cancel < 1
    /\ tb' = [tb EXCEPT !.cancel = @ + 1, !.cancelCalled = TRUE]
    /\ UNCHANGED <<set, prev, emitted, lastCall, sets, refHist, tax, conc, root, slice>>

\* the context given to PushData is cancelled
Tb_ContextDone ==
    /\ tb.main \notin {"new", "connected", "failed"}
    /\ ~tb.ctxDone
    /\ tb' = [tb EXCEPT !.ctxDone = TRUE]
    /\ UNCHANGED <<set, prev, emitted, lastCall, sets, refHist, tax, conc, root, slice>>

NextTelemetry ==
    \/ Tb_Connect
    \/ Tb_CallClose
    \/ Tb_StartServer
    \/ Accept_Accept
    \/ Accept_Lock
    \/ Accept_Append
    \/ Worker_Read
    \/ Worker_Send
    \/ Worker_Lock
    \/ Worker_Cleanup
    \/ Push_Recv
    \/ Push_Lock
    \/ Push_Push
    \/ Push_Cancel
    \/ Push_Done
    \/ Close_Client
    \/ Close_Listener
    \/ Close_Lock
    \/ Close_Connections
    \/ Tb_Cancel
    \/ Tb_ContextDone

SpecTelemetry == InitTelemetry /\ [][NextTelemetry]_vars

\* the steps of the owning goroutine other than the choice of the select, and
\* the steps in which the other goroutines hold the mutex
OwnerStep ==
    \/ Push_Lock
    \/ Push_Push
    \/ Close_Client
    \/ Close_Listener
    \/ Close_Lock
    \/ Close_Connections

\* the scheduler runs every goroutine that can run; a select picks at random
\* among the cases that can proceed, so a case that can proceed again and again
\* is taken
FairTelemetry ==
    /\ WF_vars(OwnerStep)
    /\ WF_vars(Accept_Append)
    /\ WF_vars(Worker_Cleanup)
    /\ SF_vars(Push_Cancel)
    /\ SF_vars(Push_Done)

SpecTelemetryFair == SpecTelemetry /\ FairTelemetry

---------------------------------------------------------------------------
(* SpecRemove: remove applied to a drawn slice and index *)

InitRemove ==
    /\ set = NewIPSet(MetaOf("l1"))
    /\ prev = set
    /\ emitted = 0
    /\ lastCall = Call("NewIPSet", "", "")
    /\ sets = [p \in CachePtrs |-> NewIPSet(MetaOf(p))]
    /\ refHist = NoRefHist
    /\ tax = NoTax
    /\ conc = NoConc
    /\ tb = NoTelemetryBuffer
    /\ root = NoRoot
    /\ \E s \in Slices, i \in Indices :
          slice = [NoSlice EXCEPT !.s = s, !.i = i, !.array = s]

\* s[i] with a negative i, reached when the slice is not empty, panics
removePanics(s, i) == Len(s) > 0 /\ i < 0

\* the backing array of s after remove(s, i): s[i] = s[len(s)-1] writes through
\* to the caller's slice
removeArray(s, i) ==
    IF Len(s) > 0 /\ i < Len(s) THEN [s EXCEPT ![i + 1] = s[Len(s)]] ELSE s

\* the call remove(s, i)
Slice_remove ==
    /\ ~slice.done
    /\ slice' =
          IF removePanics(slice.s, slice.i)
          THEN [slice EXCEPT !.panicked = TRUE, !.done = TRUE]
          ELSE [slice EXCEPT !.result = remove(slice.s, slice.i),
                             !.array = removeArray(slice.s, slice.i),
                             !.done = TRUE]
    /\ UNCHANGED <<set, prev, emitted, lastCall, sets, refHist, tax, conc, tb, root>>

NextRemove == Slice_remove

SpecRemove == InitRemove /\ [][NextRemove]_vars

---------------------------------------------------------------------------
(* Properties of Spec *)

\* the reference set of the given type
referenceSet(s, referenceType) ==
    IF referenceType = SelectorType THEN s.SelectorReference ELSE s.NetPolReference

\* the pointers canBeDeleted is called with
IgnorableMembers == MemberPtrs \cup CachePtrs \cup {NilPtr}

\* C1: in every reachable state shouldBeInKernel(e) equals usedByNetPol(e) or
\* referencedInKernel(e), that is: some Selector or NetPol reference exists or the
\* kernel reference count is positive; an object with a reference should be in
\* the kernel even while its kernel reference count is 0.
C1_ShouldBeInKernel ==
    /\ shouldBeInKernel(set) <=> (usedByNetPol(set) \/ referencedInKernel(set))
    /\ shouldBeInKernel(set) <=>
          \/ set.SelectorReference # {}
          \/ set.NetPolReference # {}
          \/ set.kernelReferCount > 0
    /\ ((set.SelectorReference # {} \/ set.NetPolReference # {})
            /\ set.kernelReferCount = 0) => shouldBeInKernel(set)

C1_Witness ==
    /\ lastCall = Call("addReference", "np1", NetPolType)
    /\ set.NetPolReference = {"np1"}
    /\ set.SelectorReference = {}
    /\ set.kernelReferCount = 0
    /\ ~referencedInKernel(set)
    /\ shouldBeInKernel(set)

\* the contents of s are empty, given the member that may be ignored
contentsEmpty(s, m) ==
    CASE s.Kind = HashSet -> keys(s.IPPodKey) = {}
      [] s.Kind = ListSet ->
            \/ keys(s.MemberIPSets) = {}
            \/ \E k \in keys(s.MemberIPSets) :
                  keys(s.MemberIPSets) = {k} /\ s.MemberIPSets[k] = m
      [] OTHER -> keys(s.IPPodKey) = {} /\ keys(s.MemberIPSets) = {}

\* C2: for every ignorable member m, nil included, canBeDeleted(e, m) is true
\* exactly when e has no Selector/NetPol reference, its list reference count is
\* 0 and its contents are empty; a list with one member is not deletable with
\* m = nil and a list with two or more members is never deletable.
C2_CanBeDeleted ==
    /\ \A m \in IgnorableMembers :
          canBeDeletedResults(set, m) =
             { /\ set.SelectorReference = {}
               /\ set.NetPolReference = {}
               /\ set.ipsetReferCount = 0
               /\ contentsEmpty(set, m) }
    /\ len(set.MemberIPSets) = 1 => canBeDeletedResults(set, NilPtr) = {FALSE}
    /\ len(set.MemberIPSets) >= 2 =>
          \A m \in IgnorableMembers : canBeDeletedResults(set, m) = {FALSE}

\* a list whose one member is c1: deletable with m = c1, not with m = nil and
\* not with another object of the same hashed name
C2_Witness ==
    /\ set.Kind = ListSet
    /\ values(set.MemberIPSets) = {"c1"}
    /\ lastCall.op = "InsertMember"
    /\ canBeDeletedResults(set, "c1") = {TRUE}
    /\ canBeDeletedResults(set, NilPtr) = {FALSE}
    /\ canBeDeletedResults(set, "c1b") = {FALSE}

\* C3: in every reachable state canBeForceDeleted(e) equals: no Selector/NetPol
\* reference and list reference count 0; its value does not depend on the leaf
\* members, the list members or the kernel reference count.
C3_CanBeForceDeleted ==
    /\ canBeForceDeleted(set) <=> (~usedByNetPol(set) /\ ~referencedInList(set))
    /\ canBeForceDeleted(set) <=>
          /\ set.SelectorReference = {}
          /\ set.NetPolReference = {}
          /\ set.ipsetReferCount = 0
    /\ \A k \in 0..MaxCount :
          canBeForceDeleted([set EXCEPT !.kernelReferCount = k,
                                        !.IPPodKey = EmptyMap,
                                        !.MemberIPSets = EmptyMap])
             = canBeForceDeleted(set)

C3_Witness ==
    /\ canBeForceDeleted(set)
    /\ len(set.MemberIPSets) = 2
    /\ set.kernelReferCount > 0

\* C4: canBeDeleted(e, nil) is false whenever e has a leaf member or a list
\* member, and true whenever the contents are empty, both reference sets are
\* empty and the list reference count is 0.
C4_CanBeDeletedNil ==
    /\ (len(set.IPPodKey) > 0 \/ len(set.MemberIPSets) > 0)
          => canBeDeletedResults(set, NilPtr) = {FALSE}
    /\ ( /\ len(set.IPPodKey) = 0
         /\ len(set.MemberIPSets) = 0
         /\ set.SelectorReference = {}
         /\ set.NetPolReference = {}
         /\ set.ipsetReferCount = 0 )
          => canBeDeletedResults(set, NilPtr) = {TRUE}

\* the last reference of a hash set with a leaf member has just been deleted
C4_Witness ==
    /\ lastCall.op = "deleteReference"
    /\ usedByNetPol(prev)
    /\ ~usedByNetPol(set)
    /\ ~referencedInList(set)
    /\ len(set.IPPodKey) > 0
    /\ canBeDeletedResults(set, NilPtr) = {FALSE}

\* C7: both counters are >= 0 in every reachable state; a decrement of a
\* counter that is 0 leaves it at 0 and changes nothing else in the object.
C7_CountersNonNegative ==
    /\ set.ipsetReferCount >= 0
    /\ set.kernelReferCount >= 0
    /\ (lastCall.op = "decIPSetReferCount" /\ prev.ipsetReferCount = 0)
          => (set.ipsetReferCount = 0 /\ set = prev)
    /\ (lastCall.op = "decKernelReferCount" /\ prev.kernelReferCount = 0)
          => (set.kernelReferCount = 0 /\ set = prev)

C7_Witness ==
    /\ lastCall.op = "decIPSetReferCount"
    /\ prev.ipsetReferCount = 0
    /\ prev.kernelReferCount > 0
    /\ prev.SelectorReference # {}
    /\ set = prev

\* C8: every decrement of a counter that is already 0 emits a
\* contract-violation signal.
C8_DecAtZeroSignals ==
    /\ (lastCall.op = "decIPSetReferCount" /\ prev.ipsetReferCount = 0)
          => emitted = 1
    /\ (lastCall.op = "decKernelReferCount" /\ prev.kernelReferCount = 0)
          => emitted = 1

\* C9: addReference is idempotent: applied twice it yields the state one
\* application yields, and applied with a name already in the set of its type it
\* changes nothing.
C9_AddReferenceIdempotent ==
    /\ \A p \in Policies, t \in {SelectorType, NetPolType} :
          /\ addReference(addReference(set, p, t), p, t) = addReference(set, p, t)
          /\ p \in referenceSet(set, t) => addReference(set, p, t) = set
          /\ p \in referenceSet(addReference(set, p, t), t)
    /\ ( /\ lastCall.op = "addReference"
         /\ lastCall.a2 \in {SelectorType, NetPolType}
         /\ lastCall.a1 \in referenceSet(prev, lastCall.a2) ) => set = prev

C9_Witness ==
    /\ lastCall = Call("addReference", "np1", SelectorType)
    /\ "np1" \in prev.SelectorReference
    /\ set = prev

\* C10: deleteReference is idempotent: it changes nothing when the name is not
\* in the set of its type, applied twice it yields the state one application
\* yields, and one application removes a name however often it was added.
C10_DeleteReferenceIdempotent ==
    /\ \A p \in Policies, t \in {SelectorType, NetPolType} :
          /\ deleteReference(deleteReference(set, p, t), p, t) = deleteReference(set, p, t)
          /\ p \notin referenceSet(set, t) => deleteReference(set, p, t) = set
          /\ p \notin referenceSet(
                deleteReference(addReference(addReference(set, p, t), p, t), p, t), t)
    /\ ( /\ lastCall.op = "deleteReference"
         /\ lastCall.a2 \in {SelectorType, NetPolType} )
          => lastCall.a1 \notin referenceSet(set, lastCall.a2)
    /\ ( /\ lastCall.op = "deleteReference"
         /\ lastCall.a2 \in {SelectorType, NetPolType}
         /\ lastCall.a1 \notin referenceSet(prev, lastCall.a2) ) => set = prev

\* a name added twice, as Selector, is gone after one deleteReference
C10_Witness ==
    /\ lastCall = Call("deleteReference", "np1", SelectorType)
    /\ "np1" \in prev.SelectorReference
    /\ "np1" \notin set.SelectorReference
    /\ set.NetPolReference = prev.NetPolReference

\* C12: addReference or deleteReference called with a reference type other
\* than Selector or NetPol changes no part of the object (it only logs).
C12_UnknownReferenceType ==
    /\ \A p \in Policies, t \in ReferenceTypes \ {SelectorType, NetPolType} :
          /\ addReference(set, p, t) = set
          /\ deleteReference(set, p, t) = set
    /\ ( /\ lastCall.op \in {"addReference", "deleteReference"}
         /\ lastCall.a2 \notin {SelectorType, NetPolType} )
          => (set = prev /\ emitted = 1)

\* addReference with another type on an object that holds references, counts
\* and members
C12_Witness ==
    /\ lastCall = Call("addReference", "np2", "Other")
    /\ prev.SelectorReference = {"np1"}
    /\ prev.NetPolReference = {}
    /\ prev.ipsetReferCount = 1
    /\ prev.kernelReferCount = 1
    /\ len(prev.MemberIPSets) = 1
    /\ set = prev

\* the elements of a sequence
Range(q) == {q[i] : i \in 1..Len(q)}

\* C13: GetSetContents returns, without error, exactly the leaf member
\* identities (the keys of IPPodKey) of a HashSet and exactly the HashedNames of
\* the member objects of a ListSet, one entry per member, in any order.
C13_GetSetContents ==
    /\ set.Kind = HashSet =>
          \A r \in GetSetContents(set) :
              /\ r.err = NilError
              /\ Len(r.contents) = len(set.IPPodKey)
              /\ Range(r.contents) = keys(set.IPPodKey)
    /\ set.Kind = ListSet =>
          \A r \in GetSetContents(set) :
              /\ r.err = NilError
              /\ Len(r.contents) = len(set.MemberIPSets)
              /\ Range(r.contents) = {HashedNameOf(m) : m \in values(set.MemberIPSets)}
              /\ Range(r.contents) = keys(set.MemberIPSets)
    /\ GetSetContents(set) # {}

\* a hash set with two leaf members: both orders are results
C13_Witness ==
    /\ set.Kind = HashSet
    /\ keys(set.IPPodKey) = IPs
    /\ lastCall.op = "InsertIP"
    /\ {r.contents : r \in GetSetContents(set)}
          = {<<"10.0.0.1", "10.0.0.2">>, <<"10.0.0.2", "10.0.0.1">>}

\* a list with the members c1b and c2
C13_WitnessList ==
    /\ set.Kind = ListSet
    /\ values(set.MemberIPSets) = {"c1b", "c2"}
    /\ \E r \in GetSetContents(set) :
          r.contents = <<"azure-npm-#ns-y", "azure-npm-#ns-x">>

\* the values Kind can have besides HashSet and ListSet
InvalidKinds == {UnknownKind, "corrupted"}

\* C14: GetSetContents on an object whose Kind is neither HashSet nor ListSet
\* returns ErrIPSetInvalidKind with empty contents.
C14_GetSetContentsInvalidKind ==
    /\ set.Kind \notin {HashSet, ListSet} =>
          GetSetContents(set) = { [contents |-> <<>>, err |-> ErrIPSetInvalidKind] }
    /\ \A k \in InvalidKinds :
          GetSetContents([set EXCEPT !.Kind = k])
             = { [contents |-> <<>>, err |-> ErrIPSetInvalidKind] }

\* an object built from UnknownType metadata, in use by a policy
C14_Witness ==
    /\ set.Type = UnknownType
    /\ set.Kind = UnknownKind
    /\ lastCall.op = "addReference"
    /\ usedByNetPol(set)
    /\ GetSetContents(set) = { [contents |-> <<>>, err |-> ErrIPSetInvalidKind] }

\* the names hasMember is called with
MemberNames == {HashedNameOf(p) : p \in MemberPtrs} \cup {"azure-npm-#other"}

\* C15: hasMember on a HashSet fails with ErrIPSetInvalidKind; on a ListSet it
\* returns true iff the name is a key of MemberIPSets.
C15_HasMemberInvalidKind ==
    /\ set.Kind = HashSet =>
          \A n \in MemberNames : hasMemberOutcome(set, n).err = ErrIPSetInvalidKind
    /\ set.Kind = ListSet =>
          \A n \in MemberNames :
              /\ hasMemberOutcome(set, n).err = NilError
              /\ hasMemberOutcome(set, n).value <=> n \in keys(set.MemberIPSets)

\* the ListSet half of C15, which holds
C15_HasMemberOnList ==
    set.Kind = ListSet =>
        \A n \in MemberNames :
            hasMemberOutcome(set, n).value <=> n \in keys(set.MemberIPSets)

identity(s) == <<s.Kind, s.Type, s.Name, s.unprefixedName, s.HashedName>>

\* C23: no call changes the Kind, Type, Name, unprefixed name or HashedName
\* the object got from NewIPSet.
C23_IdentityFixed ==
    /\ identity(set) = identity(prev)
    /\ \E m \in Metadatas : identity(set) = identity(NewIPSet(m))
    /\ \A p \in Policies, t \in ReferenceTypes :
          /\ identity(addReference(set, p, t)) = identity(set)
          /\ identity(deleteReference(set, p, t)) = identity(set)
    /\ identity(incIPSetReferCount(set)) = identity(set)
    /\ identity(decIPSetReferCount(set)) = identity(set)
    /\ identity(incKernelReferCount(set)) = identity(set)
    /\ identity(decKernelReferCount(set)) = identity(set)

\* a reference has just been stored in a list
C23_Witness ==
    /\ lastCall = Call("addReference", "np2", SelectorType)
    /\ set.Kind = ListSet
    /\ set # prev
    /\ "np2" \in set.SelectorReference
    /\ set.unprefixedName = "k"
    /\ identity(set) = identity(NewIPSet(NewIPSetMetadata("k", KeyLabelOfNamespace)))

\* C24: the two membership maps are mutually exclusive and match Kind: a
\* HashSet has IPPodKey alone (MemberIPSets is nil and holds nothing), a ListSet
\* has MemberIPSets alone (IPPodKey is nil and holds nothing), and in no state
\* do both hold members.
C24_MapsMatchKind ==
    /\ set.Kind = HashSet =>
          /\ set.MemberIPSets = NilMap
          /\ len(set.MemberIPSets) = 0
          /\ set.IPPodKey # NilMap
    /\ set.Kind = ListSet =>
          /\ set.IPPodKey = NilMap
          /\ len(set.IPPodKey) = 0
          /\ set.MemberIPSets # NilMap
    /\ ~(len(set.IPPodKey) > 0 /\ len(set.MemberIPSets) > 0)

\* a list that holds two members
C24_Witness ==
    /\ set.Kind = ListSet
    /\ lastCall.op = "InsertMember"
    /\ len(set.MemberIPSets) = 2
    /\ set.IPPodKey = NilMap

\* C29: an object that should be in the kernel is never reported deletable.
C29_KernelUseNotDeletable ==
    shouldBeInKernel(set) =>
        /\ ~canBeForceDeleted(set)
        /\ TRUE \notin canBeDeletedResults(set, NilPtr)

\* the part of C29 that holds: an object used by a network policy is never
\* reported deletable
C29_PolicyUseNotDeletable ==
    usedByNetPol(set) =>
        /\ ~canBeForceDeleted(set)
        /\ \A m \in IgnorableMembers : TRUE \notin canBeDeletedResults(set, m)

\* the object with which C29 fails: counted in the kernel, yet deletable
C29_KernelCountedDeletable ==
    /\ lastCall.op = "incKernelReferCount"
    /\ set.kernelReferCount = 1
    /\ shouldBeInKernel(set)
    /\ canBeForceDeleted(set)
    /\ canBeDeletedResults(set, NilPtr) = {TRUE}

\* s with the given field as in t
withField(s, f, t) == [s EXCEPT ![f] = t[f]]

\* C30: each mutating call changes its own field alone: a kernel counter call
\* leaves all but kernelReferCount, a list counter call all but ipsetReferCount,
\* a Selector reference call all but SelectorReference and a NetPol reference
\* call all but NetPolReference; deleting p as Selector leaves p as NetPol, and
\* conversely.
C30_FrameEffects ==
    /\ lastCall.op \in {"incKernelReferCount", "decKernelReferCount"}
          => withField(set, "kernelReferCount", prev) = prev
    /\ lastCall.op \in {"incIPSetReferCount", "decIPSetReferCount"}
          => withField(set, "ipsetReferCount", prev) = prev
    /\ (lastCall.op \in {"addReference", "deleteReference"} /\ lastCall.a2 = SelectorType)
          => withField(set, "SelectorReference", prev) = prev
    /\ (lastCall.op \in {"addReference", "deleteReference"} /\ lastCall.a2 = NetPolType)
          => withField(set, "NetPolReference", prev) = prev
    /\ withField(incKernelReferCount(set), "kernelReferCount", set) = set
    /\ withField(decKernelReferCount(set), "kernelReferCount", set) = set
    /\ withField(incIPSetReferCount(set), "ipsetReferCount", set) = set
    /\ withField(decIPSetReferCount(set), "ipsetReferCount", set) = set
    /\ \A p \in Policies :
          /\ withField(addReference(set, p, SelectorType), "SelectorReference", set) = set
          /\ withField(deleteReference(set, p, SelectorType), "SelectorReference", set) = set
          /\ withField(addReference(set, p, NetPolType), "NetPolReference", set) = set
          /\ withField(deleteReference(set, p, NetPolType), "NetPolReference", set) = set

\* np1, held as Selector and as NetPol, has just been deleted as Selector
C30_Witness ==
    /\ lastCall = Call("deleteReference", "np1", SelectorType)
    /\ "np1" \in prev.SelectorReference
    /\ "np1" \notin set.SelectorReference
    /\ "np1" \in set.NetPolReference
    /\ set.ipsetReferCount = 1
    /\ set.kernelReferCount = 1

---------------------------------------------------------------------------
(* Properties of SpecPaired *)

\* C5: a child that is a member of a list is neither deletable, whatever the
\* ignorable member, nor force-deletable: removal from, or destruction of, only
\* some of its parents leaves it so; it is deletable only when it is a member of
\* no list.
C5_SharedChildNotDeletable ==
    \A child \in Children :
        /\ ParentsOf(child) # {} =>
              /\ ~canBeForceDeleted(sets[child])
              /\ \A m \in IgnorableMembers :
                    canBeDeletedResults(sets[child], m) = {FALSE}
        /\ ( \/ canBeForceDeleted(sets[child])
             \/ \E m \in IgnorableMembers : TRUE \in canBeDeletedResults(sets[child], m) )
              => ParentsOf(child) = {}

\* c1 has just been removed from l2 and is still a member of l1
C5_Witness ==
    /\ lastCall = Call("RemoveFromList", "l2", "c1")
    /\ ParentsOf("c1") = {"l1"}
    /\ ~usedByNetPol(sets["c1"])
    /\ len(sets["c1"].IPPodKey) = 0
    /\ ~canBeForceDeleted(sets["c1"])

\* the other case of C5: l1 has just been destroyed and c1 is still a member of l2
C5_WitnessDestroy ==
    /\ lastCall = Call("DestroyList", "l1", "")
    /\ ParentsOf("c1") = {"l2"}
    /\ sets["c1"].ipsetReferCount = 1
    /\ ~usedByNetPol(sets["c1"])
    /\ ~canBeForceDeleted(sets["c1"])

\* C6: for a hash set child with no members and no policy reference:
\* after its insertion into a list, with incIPSetReferCount, canBeDeleted(C, nil)
\* is false; after its removal, with decIPSetReferCount, and with no other
\* reference on it, canBeDeleted(C, nil) is true again.
C6_AddThenRemove ==
    \A child \in Children :
        /\ ( /\ lastCall.op = "AddToList"
             /\ lastCall.a2 = child
             /\ len(sets[child].IPPodKey) = 0
             /\ ~usedByNetPol(sets[child]) )
              => canBeDeletedResults(sets[child], NilPtr) = {FALSE}
        /\ ( /\ lastCall.op = "RemoveFromList"
             /\ lastCall.a2 = child
             /\ len(sets[child].IPPodKey) = 0
             /\ ~usedByNetPol(sets[child])
             /\ ParentsOf(child) = {} )
              => canBeDeletedResults(sets[child], NilPtr) = {TRUE}

C6_Witness ==
    /\ lastCall = Call("RemoveFromList", "l1", "c1")
    /\ len(sets["c1"].IPPodKey) = 0
    /\ ~usedByNetPol(sets["c1"])
    /\ ParentsOf("c1") = {}
    /\ canBeDeletedResults(sets["c1"], NilPtr) = {TRUE}

\* C28: with every insertion into a list paired with one incIPSetReferCount
\* and every removal with one decIPSetReferCount, the list reference count of
\* every object is the number of lists whose membership map holds it, and
\* referencedInList holds exactly of the members of some list.
C28_ListCountIsParents ==
    \A e \in CachePtrs :
        /\ sets[e].ipsetReferCount = Cardinality(ParentsOf(e))
        /\ referencedInList(sets[e]) <=> ParentsOf(e) # {}

\* c1 is in both lists, and c2, once in l1, has left it
C28_Witness ==
    /\ lastCall = Call("RemoveFromList", "l1", "c2")
    /\ ParentsOf("c1") = {"l1", "l2"}
    /\ sets["c1"].ipsetReferCount = 2
    /\ ParentsOf("c2") = {}
    /\ ~referencedInList(sets["c2"])

---------------------------------------------------------------------------
(* Properties of SpecRefs *)

\* C11: after any sequence of addReference/deleteReference calls usedByNetPol(e)
\* is true iff some <<policy name, type>> with type Selector or NetPol has an add
\* as its most recent operation, that is iff one of the two reference sets is
\* non-empty.
C11_UsedByNetPol ==
    /\ usedByNetPol(set) <=> (\E pair \in DOMAIN refHist : refHist[pair] = "add")
    /\ usedByNetPol(set) <=> (set.SelectorReference # {} \/ set.NetPolReference # {})
    /\ \A pair \in DOMAIN refHist :
          refHist[pair] = "add" <=> pair[1] \in referenceSet(set, pair[2])

\* np1 was added as Selector and deleted again, np2 was added as NetPol and stays
C11_Witness ==
    /\ refHist[<<"np1", SelectorType>>] = "delete"
    /\ refHist[<<"np2", NetPolType>>] = "add"
    /\ refHist[<<"np1", NetPolType>>] = "none"
    /\ refHist[<<"np2", SelectorType>>] = "none"
    /\ set.SelectorReference = {}
    /\ usedByNetPol(set)

---------------------------------------------------------------------------
(* Properties of SpecTaxonomy *)

\* C16: getSetKind maps every SetType value to one of HashSet, ListSet and
\* UnknownKind: six declared types to HashSet, three to ListSet, and UnknownType
\* is the only declared type it maps to UnknownKind.
C16_GetSetKindTotal ==
    tax.op = "getSetKind" /\ tax.done =>
        /\ tax.kind \in {HashSet, ListSet, UnknownKind}
        /\ tax.m1.Type \in {CIDRBlocks, Namespace, NamedPorts, KeyLabelOfPod,
                            KeyValueLabelOfPod, EmptyHashSet} => tax.kind = HashSet
        /\ tax.m1.Type \in {KeyLabelOfNamespace, KeyValueLabelOfNamespace,
                            NestedLabelOfPod} => tax.kind = ListSet
        /\ tax.m1.Type = UnknownType => tax.kind = UnknownKind
        /\ (tax.m1.Type \in SetTypes /\ tax.kind = UnknownKind)
              => tax.m1.Type = UnknownType

C16_Witness ==
    /\ tax.op = "getSetKind" /\ tax.done
    /\ tax.m1.Type = UnknownType
    /\ tax.kind = UnknownKind

\* a value of the type that is no declared constant falls to the default case
C16_UndeclaredValue ==
    /\ tax.op = "getSetKind" /\ tax.done
    /\ tax.m1.Type = 10
    /\ tax.kind = UnknownKind

\* C17: for metadata of UnknownType or of an unrecognized type GetPrefixName
\* returns "unknown" (and reports it); GetHashedName returns "unknown" exactly
\* when GetPrefixName does, and is the hash of the prefix name otherwise.
C17_UnknownSentinel ==
    tax.op = "names" /\ tax.done =>
        /\ tax.m1.Type \notin KnownTypes => (tax.prefix1 = Unknown /\ tax.logs = 1)
        /\ tax.hashed1 = Unknown <=> tax.prefix1 = Unknown
        /\ tax.m1.Type \in KnownTypes =>
              /\ tax.prefix1 # Unknown
              /\ tax.logs = 0
              /\ tax.hashed1 = util_GetHashedName(tax.prefix1)

C17_Witness ==
    /\ tax.op = "names" /\ tax.done
    /\ tax.m1 = NewIPSetMetadata("x", 10)
    /\ tax.prefix1 = Unknown
    /\ tax.hashed1 = Unknown

\* C18 as stated: two distinct metadata of known types never have the same
\* hashed name.
C18_NoCollision ==
    ( /\ tax.op = "names" /\ tax.done
      /\ tax.m1 # tax.m2
      /\ tax.m1.Type \in KnownTypes
      /\ tax.m2.Type \in KnownTypes ) => tax.hashed1 # tax.hashed2

\* the pairs of types whose cases of GetPrefixName use the same prefix
SharedPrefixTypes ==
    { {KeyLabelOfPod, KeyValueLabelOfPod},
      {KeyLabelOfNamespace, KeyValueLabelOfNamespace} }

\* C18, amended: two metadata of known types have the same hashed name exactly
\* when they have the same prefix name; distinct metadata collide exactly when
\* they have the same Name and their types share a prefix.
C18_CollisionOnlyOnSharedPrefix ==
    ( /\ tax.op = "names" /\ tax.done
      /\ tax.m1.Type \in KnownTypes
      /\ tax.m2.Type \in KnownTypes ) =>
        /\ tax.hashed1 = tax.hashed2 <=> tax.prefix1 = tax.prefix2
        /\ (tax.m1.Type = tax.m2.Type /\ tax.m1.Name # tax.m2.Name)
              => tax.hashed1 # tax.hashed2
        /\ tax.m1 # tax.m2 =>
              ( tax.hashed1 = tax.hashed2 <=>
                   /\ tax.m1.Name = tax.m2.Name
                   /\ {tax.m1.Type, tax.m2.Type} \in SharedPrefixTypes )

C18_Witness ==
    /\ tax.op = "names" /\ tax.done
    /\ tax.m1 = NewIPSetMetadata("x", KeyLabelOfPod)
    /\ tax.m2 = NewIPSetMetadata("x", KeyValueLabelOfPod)
    /\ tax.prefix1 = tax.prefix2
    /\ tax.hashed1 = tax.hashed2

\* the prefix of each known type
CanonicalPrefix(setType) ==
    CASE setType = CIDRBlocks -> CIDRPrefix
      [] setType = Namespace -> NamespacePrefix
      [] setType = NamedPorts -> NamedPortIPSetPrefix
      [] setType \in {KeyLabelOfPod, KeyValueLabelOfPod} -> PodLabelPrefix
      [] setType \in {KeyLabelOfNamespace, KeyValueLabelOfNamespace} -> NamespaceLabelPrefix
      [] setType = NestedLabelOfPod -> NestedLabelPrefix
      [] setType = EmptyHashSet -> EmptySetPrefix

\* C19: for metadata of a known type GetPrefixName is the prefix of the type
\* immediately followed by Name; KeyValueLabelOfPod "app:web" is of kind HashSet
\* and its prefix name is the pod-label prefix followed by "app:web".
C19_PrefixThenName ==
    (tax.op = "names" /\ tax.done /\ tax.m1.Type \in KnownTypes) =>
        LET pre == CanonicalPrefix(tax.m1.Type)
            n == Len(tax.prefix1)
        IN  /\ tax.prefix1 = pre \o tax.m1.Name
            /\ n = Len(pre) + Len(tax.m1.Name)
            /\ SubSeq(tax.prefix1, 1, Len(pre)) = pre
            /\ SubSeq(tax.prefix1, Len(pre) + 1, n) = tax.m1.Name
            /\ tax.m1 = NewIPSetMetadata("app:web", KeyValueLabelOfPod) =>
                  /\ tax.kind = HashSet
                  /\ tax.prefix1 = PodLabelPrefix \o "app:web"

C19_Witness ==
    /\ tax.op = "names" /\ tax.done
    /\ tax.m1 = NewIPSetMetadata("app:web", KeyValueLabelOfPod)
    /\ tax.kind = HashSet
    /\ tax.prefix1 = "podlabel-app:web"

\* C20: GetMembersOfTranslatedSets returns a sequence of the length and order of
\* its input whose i-th metadata has the i-th member name and the type
\* KeyValueLabelOfPod, for every input, the empty one included.
C20_MembersOfTranslatedSets ==
    tax.op = "GetMembersOfTranslatedSets" /\ tax.done =>
        /\ Len(tax.list) = Len(tax.members)
        /\ \A i \in 1..Len(tax.members) :
              /\ tax.list[i].Name = tax.members[i]
              /\ tax.list[i].Type = KeyValueLabelOfPod

C20_Witness ==
    /\ tax.op = "GetMembersOfTranslatedSets" /\ tax.done
    /\ tax.members = <<"app:web", "x">>
    /\ tax.list = << NewIPSetMetadata("app:web", KeyValueLabelOfPod),
                     NewIPSetMetadata("x", KeyValueLabelOfPod) >>

C20_WitnessEmpty ==
    /\ tax.op = "GetMembersOfTranslatedSets" /\ tax.done
    /\ tax.members = <<>>
    /\ tax.list = <<>>

\* C31: for every metadata m, of every SetType value including UnknownType, the
\* entity built by NewIPSet(m) has Name equal to m.GetPrefixName() and HashedName
\* equal to m.GetHashedName().
C31_AddressableByMetadata ==
    tax.op = "NewIPSet" /\ tax.done =>
        /\ set.Name = tax.prefix1
        /\ set.HashedName = tax.hashed1

\* what holds: Name is the prefix name for every metadata, and HashedName is
\* m.GetHashedName() for metadata of the nine known types
C31_KnownTypesAddressable ==
    tax.op = "NewIPSet" /\ tax.done =>
        /\ set.Name = tax.prefix1
        /\ set.unprefixedName = tax.m1.Name
        /\ set.HashedName = util_GetHashedName(tax.prefix1)
        /\ tax.m1.Type \in KnownTypes => set.HashedName = tax.hashed1

\* the entity built from metadata of UnknownType: its HashedName is the hash of
\* the sentinel while m.GetHashedName() is the sentinel itself
C31_UnknownTypeHashed ==
    /\ tax.op = "NewIPSet" /\ tax.done
    /\ tax.m1 = NewIPSetMetadata("x", UnknownType)
    /\ set.Name = Unknown
    /\ tax.hashed1 = Unknown
    /\ set.HashedName = util_GetHashedName(Unknown)
    /\ set.HashedName # tax.hashed1

---------------------------------------------------------------------------
(* Properties of SpecConcurrent *)

\* two actors are inside a method that reads and writes the same field
ConcRace ==
    \E a, b \in Actors :
        /\ a # b
        /\ conc.pc[a] \in {"locked", "loaded"}
        /\ conc.pc[b] \in {"locked", "loaded"}
        /\ fieldOf(conc.op[a]) = fieldOf(conc.op[b])

\* C21: with every call made under the lock of the engine, no two calls of
\* the two actors overlap on a field, and whenever no call is inside a method
\* the counters and reference sets of the object are those of the calls applied
\* one after the other, in the order the lock was granted: no update is lost.
C21_Serialized ==
    /\ ~ConcRace
    /\ Cardinality({a \in Actors : conc.pc[a] \in {"locked", "loaded", "stored"}}) <= 1
    /\ (\A a \in Actors : conc.pc[a] \notin {"locked", "loaded"}) => conc.obj = conc.lin

\* sync has just stored its increment while policy waits with another one, and
\* the increment policy made before is still counted
C21_Witness ==
    /\ conc.pc["sync"] = "stored"
    /\ conc.op["sync"] = Call("incIPSetReferCount", "", "")
    /\ conc.pc["policy"] = "waiting"
    /\ conc.op["policy"] = Call("addReference", "np1", NetPolType)
    /\ conc.obj.ipsetReferCount = 2
    /\ conc.obj.SelectorReference = {"np1"}
    /\ conc.obj = conc.lin

---------------------------------------------------------------------------
(* Properties of SpecRoot *)

\* the positions in the trace of the calls named
Calls(name) == {i \in 1..Len(root.trace) : root.trace[i] = name}

\* C27: on every path of rootExecute, StartTelemetryService is called only
\* after InitializeKeyValueStore has succeeded and before
\* UninitializeKeyValueStore is called.
C27_StartInsideStoreLock ==
    \A i \in Calls("StartTelemetryService") :
        /\ \E j \in Calls("InitializeKeyValueStore:ok") : j < i
        /\ \A k \in Calls("UninitializeKeyValueStore") : i < k

\* the service was started twice, the store was then released and rootExecute
\* has returned
C27_Witness ==
    /\ root.pc = "returned"
    /\ Cardinality(Calls("StartTelemetryService")) = 2
    /\ Cardinality(Calls("InitializeKeyValueStore:ok")) = 1
    /\ Cardinality(Calls("UninitializeKeyValueStore")) = 1
    /\ root.trace[Len(root.trace)] = "UninitializeKeyValueStore"

\* rootExecute has ended: it returned, or the process exited
RootEnded == root.pc \in {"returned", "exited"}

\* C33: when InitializeKeyValueStore succeeded, UninitializeKeyValueStore is
\* called exactly once before rootExecute ends, on every path (normal return,
\* GET_ENDPOINT_STATE, failed Execute, and the panic of a failed Start, where it
\* precedes os.Exit); when InitializeKeyValueStore failed or was not called,
\* UninitializeKeyValueStore is never called.
C33_UninitializeOnce ==
    /\ Cardinality(Calls("UninitializeKeyValueStore")) <= 1
    /\ \A k \in Calls("UninitializeKeyValueStore") :
          \E j \in Calls("InitializeKeyValueStore:ok") : j < k
    /\ \A e \in Calls("os.Exit") :
          \E k \in Calls("UninitializeKeyValueStore") : k < e
    /\ RootEnded =>
          IF Calls("InitializeKeyValueStore:ok") # {}
          THEN Cardinality(Calls("UninitializeKeyValueStore")) = 1
          ELSE Calls("UninitializeKeyValueStore") = {}

\* netPlugin.Start failed and panicked; the deferred function released the
\* store once and then exited the process
C33_Witness ==
    /\ root.pc = "exited"
    /\ Calls("panic") # {}
    /\ Cardinality(Calls("InitializeKeyValueStore:ok")) = 1
    /\ Cardinality(Calls("UninitializeKeyValueStore")) = 1
    /\ root.trace[Len(root.trace)] = "os.Exit"
    /\ root.trace[Len(root.trace) - 1] = "UninitializeKeyValueStore"

\* InitializeKeyValueStore failed and rootExecute returned without a call of
\* UninitializeKeyValueStore
C33_WitnessInitFailed ==
    /\ root.pc = "returned"
    /\ Calls("InitializeKeyValueStore:err") # {}
    /\ Calls("UninitializeKeyValueStore") = {}
    /\ root.ret # NilError

\* ConnectCNIToTelemetryService has returned to rootExecute
ConnectCNIReturned ==
    /\ Calls("InitializeKeyValueStore:ok") # {}
    /\ root.pc \notin {"ConnectCNI_Connect", "ConnectCNI_Lock", "ConnectCNI_Cleanup",
                       "ConnectCNI_StartTelemetryService", "ConnectCNI_Unlock"}

\* the calls of LockKeyValueStore that took the lock and have no call of
\* UnLockKeyValueStore after them
UnreleasedLocks ==
    {i \in Calls("LockKeyValueStore:ok") :
        \A k \in Calls("UnLockKeyValueStore:ok") \cup Calls("UnLockKeyValueStore:err") :
            k < i}

\* C34: once ConnectCNIToTelemetryService has returned, every LockKeyValueStore
\* that took the lock has been followed by a call of UnLockKeyValueStore, also
\* when Cleanup or StartTelemetryService failed; at most two connection attempts
\* are made, and Connected is true only after a successful Connect.
C34_LockReleasedOnReturn ==
    /\ ConnectCNIReturned => UnreleasedLocks = {}
    /\ Cardinality(Calls("Dial:ok") \cup Calls("Dial:err")) <= 2
    /\ root.Connected => Calls("Dial:ok") # {}

\* the part of C34 that holds: at most two attempts, Connected only after a
\* successful Connect, and the lock is left held on return only on the two
\* error returns between LockKeyValueStore and UnLockKeyValueStore
C34_LockReleasedUnlessFailed ==
    /\ Cardinality(Calls("Dial:ok") \cup Calls("Dial:err")) <= 2
    /\ root.Connected => Calls("Dial:ok") # {}
    /\ Cardinality(UnreleasedLocks) <= 1
    /\ (root.pc = "Start" /\ UnreleasedLocks # {}) =>
          /\ root.goos = "windows"
          /\ root.err \in {Wrap("error", "cleanup failed"),
                           Wrap("error", "StartTelemetryService failed")}

\* the state that refutes C34: on windows the lock was taken, Cleanup failed
\* and ConnectCNIToTelemetryService returned without UnLockKeyValueStore
C34_ReturnedHoldingLock ==
    /\ root.pc = "Start"
    /\ root.goos = "windows"
    /\ root.kvLocked
    /\ root.err = Wrap("error", "cleanup failed")
    /\ Calls("LockKeyValueStore:ok") # {}
    /\ Calls("UnLockKeyValueStore:ok") \cup Calls("UnLockKeyValueStore:err") = {}
    /\ root.trace[Len(root.trace)] = "Cleanup:err"

\* handleIfCniUpdate was called on UPDATE and returned an error
UpdateFailed ==
    /\ root.cniCmd = "UPDATE"
    /\ Calls("getCmdArgsFromEnv:err") \cup Calls("validateConfig:err")
          \cup Calls("update:err") # {}

\* C35: if the CNI command is UPDATE and handling it fails (stdin read error,
\* invalid network config, or the update callback returns an error),
\* rootExecute returns a non-nil error and the error is reported through
\* reportPluginError.
C35_UpdateFailureReported ==
    (root.pc = "returned" /\ UpdateFailed) =>
        /\ root.ret # NilError
        /\ Calls("reportPluginError") # {}

\* what the code does instead: the error of a failed UPDATE is dropped, so
\* rootExecute returns nil and reportPluginError is not called
C35_UpdateFailureDropped ==
    (root.pc = "returned" /\ UpdateFailed) =>
        /\ root.ret = NilError
        /\ root.handled
        /\ Calls("reportPluginError") = {}
        /\ Calls("Execute:ok") \cup Calls("Execute:err") = {}

\* the state that refutes C35: the update callback failed and rootExecute
\* returned nil after Stop, with no report
C35_FailedUpdateReturnsNil ==
    /\ root.pc = "returned"
    /\ root.cniCmd = "UPDATE"
    /\ Calls("update:err") # {}
    /\ Calls("Stop") # {}
    /\ Calls("reportPluginError") = {}
    /\ root.ret = NilError

\* the calls of the update callback
UpdateCalls == Calls("update:ok") \cup Calls("update:err")

\* C36: when CNI_COMMAND is not UPDATE, handleIfCniUpdate returns handled = false
\* with a nil error and never calls the update callback; when it is UPDATE it
\* returns handled = true, calls the callback at most once, and only after the
\* stdin config has been read and validated (valid JSON, non-empty name).
C36_HandleIfCniUpdate ==
    /\ root.updateErr = "none" => UpdateCalls = {}
    /\ (root.updateErr # "none" /\ root.cniCmd # "UPDATE") =>
          /\ ~root.handled
          /\ root.updateErr = NilError
          /\ UpdateCalls = {}
          /\ root.stdin = NoStdin
    /\ (root.updateErr # "none" /\ root.cniCmd = "UPDATE") =>
          /\ root.handled
          /\ Cardinality(UpdateCalls) <= 1
          /\ \A u \in UpdateCalls :
                /\ \E g \in Calls("getCmdArgsFromEnv:ok"), v \in Calls("validateConfig:ok") :
                      g < v /\ v < u
                /\ root.stdin.readOk /\ root.stdin.json /\ root.stdin.name # ""
          /\ root.updateErr = NilError <=> Calls("update:ok") # {}
          /\ (root.stdin.readOk /\ validateConfig(root.stdin) = NilError)
                => UpdateCalls # {}

\* UPDATE with a config that is read and valid: the callback was called once,
\* after validateConfig, and its error was returned
C36_Witness ==
    /\ root.cniCmd = "UPDATE"
    /\ root.handled
    /\ root.stdin = [readOk |-> TRUE, json |-> TRUE, name |-> "azure"]
    /\ root.updateErr = "error"
    /\ Cardinality(UpdateCalls) = 1
    /\ root.trace[Len(root.trace)] = "update:err"
    /\ root.trace[Len(root.trace) - 1] = "validateConfig:ok"

\* UPDATE with a config that has no network name: the callback was not called
C36_WitnessInvalid ==
    /\ root.cniCmd = "UPDATE"
    /\ root.handled
    /\ root.stdin = [readOk |-> TRUE, json |-> TRUE, name |-> ""]
    /\ root.updateErr = "missing network name"
    /\ UpdateCalls = {}

\* a command other than UPDATE: not handled, nil error, no callback
C36_WitnessNotUpdate ==
    /\ root.cniCmd = "ADD"
    /\ root.updateErr = NilError
    /\ ~root.handled
    /\ UpdateCalls = {}

---------------------------------------------------------------------------
(* Properties of SpecTelemetry *)

\* C25: once Close has returned, every connection the server accepted is
\* closed, tb.connections is empty, the client is nil and the listener is
\* closed.
C25_CloseClosesAll ==
    tb.main = "returned" =>
        /\ tb.open = {}
        /\ tb.connections = <<>>
        /\ tb.client = "nil"
        /\ tb.listener # "open"

\* the state that refutes C25: Close has returned, and the connection Accept
\* had returned before the listener was closed has been appended since
C25_AppendedAfterClose ==
    /\ tb.main = "returned"
    /\ tb.listener = "closed"
    /\ tb.connections = <<2>>
    /\ tb.open = {2}
    /\ tb.worker[2] = "read"

\* the part of C25 that holds: once Close has returned the client is nil, the
\* listener is closed and every connection that was in tb.connections when
\* Close took the mutex is closed
C25_CloseClosesKnown ==
    tb.main = "returned" =>
        /\ tb.client = "nil"
        /\ tb.listener # "open"
        /\ \A c \in tb.open : tb.acc \in {"lock", "append"} \/ tb.worker[c] # "none"

\* C32: whenever a worker goroutine of StartServer has exited, its connection is
\* closed and no longer in tb.connections, so tb.connections holds only
\* connections that still have a running worker.
C32_ExitedWorkerCleanedUp ==
    /\ \A c \in Conns :
          tb.worker[c] = "exited" => (c \notin tb.open /\ c \notin Range(tb.connections))
    /\ \A c \in Range(tb.connections) : tb.worker[c] \notin {"none", "exited"}

\* the state that refutes C32: the worker of connection 1 has returned on bytes
\* that are no JSON, and the connection is still open and in tb.connections
C32_ExitedStillListed ==
    /\ tb.worker[1] = "exited"
    /\ tb.connections = <<1>>
    /\ tb.open = {1}
    /\ tb.main = "select"
    /\ tb.listener = "open"

\* PushData is in its loop
PushDataRunning == tb.main \in {"select", "lock", "push"}

\* C26: once tb.cancel holds a value or the context is done while PushData is
\* running, PushData returns and Close is executed; after that no report is
\* pushed.
C26_CancelTearsDown ==
    /\ (PushDataRunning /\ (tb.cancel > 0 \/ tb.ctxDone)) ~> (tb.main = "returned")
    /\ [][tb.main = "returned" => (tb'.main = "returned" /\ tb'.pushes = tb.pushes)]_vars

\* Cancel was called, PushData has returned through Close, and a report is
\* left in tb.data
C26_Witness ==
    /\ tb.cancelCalled
    /\ ~tb.ctxDone
    /\ tb.main = "returned"
    /\ tb.listener = "closed"
    /\ tb.data = 1
    /\ tb.pushes = 1

---------------------------------------------------------------------------
(* Properties of SpecRemove *)

\* the number of times x occurs in the slice q
count(q, x) == Cardinality({k \in 1..Len(q) : q[k] = x})

\* C37: remove(s, i) with 0 <= i < len(s) returns a slice of length len(s)-1
\* that holds exactly the elements of s other than s[i] (one occurrence of s[i]
\* fewer, every other connection as often as in s; order not preserved); with
\* an empty slice or i >= len(s) it returns s unchanged.
C37_Remove ==
    (slice.done /\ (slice.i >= 0 \/ slice.s = <<>>)) =>
        /\ ~slice.panicked
        /\ (0 <= slice.i /\ slice.i < Len(slice.s)) =>
              /\ Len(slice.result) = Len(slice.s) - 1
              /\ \A x \in Conns :
                    count(slice.result, x) =
                       count(slice.s, x) - (IF x = slice.s[slice.i + 1] THEN 1 ELSE 0)
              /\ (\A x \in Conns : count(slice.s, x) <= 1) =>
                    /\ \A x \in Conns : count(slice.result, x) <= 1
                    /\ Range(slice.result) = Range(slice.s) \ {slice.s[slice.i + 1]}
        /\ (slice.s = <<>> \/ slice.i >= Len(slice.s)) => slice.result = slice.s

\* the first of two connections is removed: the last one has taken its place
C37_Witness ==
    /\ slice.done
    /\ slice.s = <<1, 2>>
    /\ slice.i = 0
    /\ slice.result = <<2>>
    /\ slice.array = <<2, 2>>

\* a slice that holds a connection twice: one occurrence of s[i] is removed
C37_WitnessRepeated ==
    /\ slice.done
    /\ slice.s = <<2, 1, 2>>
    /\ slice.i = 0
    /\ slice.result = <<2, 1>>

\* an index past the end: the slice is returned as it was
C37_WitnessOutOfRange ==
    /\ slice.done
    /\ slice.s = <<1, 2>>
    /\ slice.i = 2
    /\ slice.result = <<1, 2>>

====
